---------------------------- MODULE Spec2Model ----------------------------
(***************************************************************************)
(* A model of Parse (src/diffparser.go, lines 168-330) and of the helpers  *)
(* it calls.  A Go string is modelled as a sequence of one-character       *)
(* strings, so that prefix tests, trimming, splitting, the regular         *)
(* expressions and the number conversions are computed character by        *)
(* character, as the code does.  One action models one case of the switch  *)
(* in the body of the loop over the lines of the diff.                     *)
(***************************************************************************)
EXTENDS Integers, Sequences, FiniteSets, TLC

VARIABLES
    lines,            \* strings.Split(diffString, "\n")
    idx,              \* index (0-based, as in the code) of the next line of the loop
    pc,               \* "loop", "done" (return &diff, nil), "error" (return nil, err), "panic"
    err,              \* the error returned, "" when none
    files,            \* diff.Files, the files in order; each is a DiffFile
    file,             \* the pointer file: 0 is nil, k is files[k]
    hunk,             \* the pointer hunk: f = 0 is nil, else files[f].Hunks[h]
    addedCount,
    removedCount,
    inHunk,
    diffPosCount,
    firstHunkInFile,
    origin,           \* history: where in lines each file, hunk and content line was read
    changed,          \* the map that Changed returned for the Diff, once it is called
    running,          \* which invocation of Parse the variables above belong to: 1 or 2
    peer,             \* the variables of the other invocation while it does not run
    hunkLineCount     \* the counter of the content lines of a hunk in the Parse of part_000

vars == <<lines, idx, pc, err, files, file, hunk, addedCount, removedCount,
          inHunk, diffPosCount, firstHunkInFile, origin, changed, running, peer,
          hunkLineCount>>

\* what no step of Parse touches: the result of Changed, the other invocation
\* and the counter that only the Parse of part_000 has
outside == <<changed, running, peer, hunkLineCount>>

-----------------------------------------------------------------------------
(* Strings: package strings and the indexing the code does.                *)

\* s[i] (1-based), "" past the end of s
At(s, i) == IF i >= 1 /\ i <= Len(s) THEN s[i] ELSE ""

\* s[i:j] for 1-based i and inclusive j, cut at the end of s
Slice(s, i, j) == IF i > Len(s) \/ j < i THEN <<>>
                  ELSE SubSeq(s, i, IF j > Len(s) THEN Len(s) ELSE j)

HasPrefix(s, p) == Len(s) >= Len(p) /\ SubSeq(s, 1, Len(p)) = p

HasSuffix(s, p) == Len(s) >= Len(p) /\ SubSeq(s, Len(s) - Len(p) + 1, Len(s)) = p

TrimPrefix(s, p) == IF HasPrefix(s, p) THEN SubSeq(s, Len(p) + 1, Len(s)) ELSE s

TrimSuffix(s, p) == IF HasSuffix(s, p) THEN SubSeq(s, 1, Len(s) - Len(p)) ELSE s

\* the first position (1-based) at or after i where sep occurs in s, 0 when none
RECURSIVE Index(_, _, _)
Index(s, sep, i) ==
    IF i + Len(sep) - 1 > Len(s) THEN 0
    ELSE IF SubSeq(s, i, i + Len(sep) - 1) = sep THEN i
    ELSE Index(s, sep, i + 1)

\* strings.Split(s, sep) for a non-empty sep
RECURSIVE Split(_, _)
Split(s, sep) ==
    LET k == Index(s, sep, 1)
    IN  IF k = 0 THEN <<s>>
        ELSE <<SubSeq(s, 1, k - 1)>> \o Split(SubSeq(s, k + Len(sep), Len(s)), sep)

-----------------------------------------------------------------------------
(* Numbers: strconv.Atoi.                                                  *)

Digits == <<"0", "1", "2", "3", "4", "5", "6", "7", "8", "9">>

IsDigit(c) == \E d \in 1..10 : Digits[d] = c

DigitVal(c) == (CHOOSE d \in 1..10 : Digits[d] = c) - 1

\* the decimal value of a sequence of digits
RECURSIVE DecVal(_)
DecVal(s) == IF s = <<>> THEN 0
             ELSE 10 * DecVal(SubSeq(s, 1, Len(s) - 1)) + DigitVal(s[Len(s)])

RECURSIVE TrimZeros(_)
TrimZeros(s) == IF s # <<>> /\ s[1] = "0" THEN TrimZeros(Tail(s)) ELSE s

\* a < b for two digit sequences of equal length
RECURSIVE DigitsLess(_, _)
DigitsLess(a, b) ==
    IF a = <<>> THEN FALSE
    ELSE IF a[1] # b[1] THEN DigitVal(a[1]) < DigitVal(b[1])
    ELSE DigitsLess(Tail(a), Tail(b))

\* the digits of the largest int (64 bits): 9223372036854775807
IntMaxDigits == <<"9","2","2","3","3","7","2","0","3","6","8","5","4","7","7","5","8","0","7">>

\* the value Atoi returns with ErrRange: the largest int; the model's integers are
\* narrower than the code's, so the largest integer of the model stands for it
IntMax == 2147483647

\* Whether the digits s (no sign) exceed the largest magnitude of an int; a
\* negative number may reach one more than a positive one
OutOfRange(s, neg) ==
    LET t == TrimZeros(s)
    IN  \/ Len(t) > Len(IntMaxDigits)
        \/ /\ Len(t) = Len(IntMaxDigits)
           /\ DigitsLess(IntMaxDigits, t)
           /\ ~(neg /\ t = <<"9","2","2","3","3","7","2","0","3","6","8","5","4","7","7","5","8","0","8">>)

\* strconv.Atoi(s): [ok |-> whether err is nil, val |-> the int returned]
Atoi(s) ==
    LET neg  == At(s, 1) = "-"
        body == IF At(s, 1) \in {"-", "+"} THEN Tail(s) ELSE s
    IN  IF body = <<>> \/ \E i \in 1..Len(body) : ~IsDigit(body[i])
        THEN [ok |-> FALSE, val |-> 0]
        ELSE IF OutOfRange(body, neg)
        THEN [ok |-> FALSE, val |-> IF neg THEN 0 - IntMax - 1 ELSE IntMax]
        ELSE [ok |-> TRUE, val |-> IF neg THEN 0 - DecVal(body) ELSE DecVal(body)]

-----------------------------------------------------------------------------
(* File names: parseFileName, decodeOctalString and the strconv.Unquote it *)
(* calls.                                                                  *)

\* the printable characters, in the order of their codes 32..126 (the grave
\* accent, code 96, cannot be written in a string here and is written as its byte)
Ascii == <<" ","!","\"","#","$","%","&","'","(",")","*","+",",","-",".","/","0","1","2","3","4","5","6","7","8","9",":",";","<","=",">","?","@","A","B","C","D","E","F","G","H","I","J","K","L","M","N","O","P","Q","R","S","T","U","V","W","X","Y","Z","[","\\","]","^","_","\\140","a","b","c","d","e","f","g","h","i","j","k","l","m","n","o","p","q","r","s","t","u","v","w","x","y","z","{","|","}","~">>

\* The byte of code v as one character of a string: the character itself when it
\* is printable, else the byte written with a backslash and its three octal digits
Chr(v) ==
    IF v >= 32 /\ v <= 126 THEN Ascii[v - 31]
    ELSE "\\" \o Digits[(v \div 64) + 1] \o Digits[((v \div 8) % 8) + 1] \o Digits[(v % 8) + 1]

IsOctal(c) == IsDigit(c) /\ DigitVal(c) <= 7

\* the code of the character a one-letter escape stands for, -1 when it is none
EscapeCode(c) ==
    CASE c = "a" -> 7 [] c = "b" -> 8 [] c = "f" -> 12 [] c = "n" -> 10
      [] c = "r" -> 13 [] c = "t" -> 9 [] c = "v" -> 11
      [] c = "\\" -> 92 [] c = "\"" -> 34 [] OTHER -> -1

\* The body of a double-quoted Go string unquoted: [ok, out].  The loop of
\* strconv.Unquote over strconv.UnquoteChar: an unescaped quote ends the string
\* too early, a backslash starts a one-letter escape or three octal digits of a
\* byte (at most 255).  The hexadecimal and Unicode escapes (\x, \u, \U) are
\* left out: no name of the model holds one.
RECURSIVE UnquoteBody(_)
UnquoteBody(s) ==
    IF s = <<>> THEN [ok |-> TRUE, out |-> <<>>]
    ELSE IF s[1] = "\"" \/ s[1] = "\n" THEN [ok |-> FALSE, out |-> <<>>]
    ELSE IF s[1] # "\\" THEN
        LET r == UnquoteBody(Tail(s))
        IN  [ok |-> r.ok, out |-> <<s[1]>> \o r.out]
    ELSE IF IsOctal(At(s, 2)) THEN
        IF IsOctal(At(s, 3)) /\ IsOctal(At(s, 4))
        THEN LET v == 64 * DigitVal(s[2]) + 8 * DigitVal(s[3]) + DigitVal(s[4])
                 r == UnquoteBody(Slice(s, 5, Len(s)))
             IN  IF v > 255 THEN [ok |-> FALSE, out |-> <<>>]
                 ELSE [ok |-> r.ok, out |-> <<Chr(v)>> \o r.out]
        ELSE [ok |-> FALSE, out |-> <<>>]
    ELSE IF EscapeCode(At(s, 2)) >= 0 THEN
        LET r == UnquoteBody(Slice(s, 3, Len(s)))
        IN  [ok |-> r.ok, out |-> <<Chr(EscapeCode(s[2]))>> \o r.out]
    ELSE [ok |-> FALSE, out |-> <<>>]

\* decodeOctalString that decodes nothing
decodeOctalStringRaw(s) == s

decodeOctalString(s) ==
    LET u == UnquoteBody(s)
    IN  IF ~u.ok THEN s ELSE u.out

parseFileName(filenameWithPrefix) ==
    IF HasPrefix(filenameWithPrefix, <<"a","/">>)
    THEN TrimPrefix(filenameWithPrefix, <<"a","/">>)
    ELSE IF HasPrefix(filenameWithPrefix, <<"b","/">>)
    THEN TrimPrefix(filenameWithPrefix, <<"b","/">>)
    ELSE IF HasPrefix(filenameWithPrefix, <<"\"">>)
    THEN LET inner == TrimSuffix(TrimPrefix(filenameWithPrefix, <<"\"">>), <<"\"">>)
         IN  IF HasPrefix(inner, <<"a","/">>)
             THEN decodeOctalString(TrimPrefix(inner, <<"a","/">>))
             ELSE IF HasPrefix(inner, <<"b","/">>)
             THEN decodeOctalString(TrimPrefix(inner, <<"b","/">>))
             ELSE decodeOctalString(inner)
    ELSE filenameWithPrefix

-----------------------------------------------------------------------------
(* Lines: the constants, the regular expressions, lineMode, isSourceLine.  *)

FileModeDeleted == 0
FileModeModified == 1
FileModeNew == 2
FileModeRenamed == 3

DiffLineModeAdded == 0
DiffLineModeRemoved == 1
DiffLineModeUnchanged == 2

oldFilePrefix == <<"-","-","-"," ">>
newFilePrefix == <<"+","+","+"," ">>
similarityPrefix == <<"s","i","m","i","l","a","r","i","t","y"," ","i","n","d","e","x"," ">>
renameFromPrefix == <<"r","e","n","a","m","e"," ","f","r","o","m"," ">>
renameToPrefix == <<"r","e","n","a","m","e"," ","t","o"," ">>
binaryPrefix == <<"B","i","n","a","r","y"," ","f","i","l","e","s"," ">>

diffPrefix == <<"d","i","f","f"," ">>
hunkPrefix == <<"@","@"," ">>
newDevNull == <<"+","+","+"," ","/","d","e","v","/","n","u","l","l">>
oldDevNull == <<"-","-","-"," ","/","d","e","v","/","n","u","l","l">>
noNewline == <<"\\"," ","N","o"," ","n","e","w","l","i","n","e"," ","a","t"," ","e","n","d"," ","o","f"," ","f","i","l","e">>

\* reinReg, ^index .+$ : "index " and at least one more character
reinReg(s) == HasPrefix(s, <<"i","n","d","e","x"," ">>) /\ Len(s) > 6

\* rempReg, ^(-|\+){3} .+$ : three signs, a space and at least one more character
rempReg(s) ==
    /\ Len(s) >= 5
    /\ \A i \in 1..3 : s[i] \in {"-", "+"}
    /\ s[4] = " "

\* the number of digits of s from position i on
RECURSIVE DigitRun(_, _)
DigitRun(s, i) == IF IsDigit(At(s, i)) THEN 1 + DigitRun(s, i + 1) ELSE 0

\* hunkHeaderReg, @@ \-(\d+),?(\d+)? \+(\d+),?(\d+)? @@ ?(.+)? , matched at
\* position i of s: [ok, m] with m the groups 1 to 5 ("" for a group that did
\* not take part).  Every repetition is greedy; taking fewer digits or leaving
\* an optional comma or space never turns a failure into a match.
hunkHeaderAt(s, i) ==
    LET j1 == i + 4
        n1 == DigitRun(s, j1)
        j2 == j1 + n1
        j3 == IF At(s, j2) = "," THEN j2 + 1 ELSE j2
        n2 == DigitRun(s, j3)
        j4 == j3 + n2
        j5 == j4 + 2
        n3 == DigitRun(s, j5)
        j6 == j5 + n3
        j7 == IF At(s, j6) = "," THEN j6 + 1 ELSE j6
        n4 == DigitRun(s, j7)
        j8 == j7 + n4
        j9 == j8 + 3
        j10 == IF At(s, j9) = " " THEN j9 + 1 ELSE j9
        ok == /\ Slice(s, i, i + 3) = <<"@","@"," ","-">>
              /\ n1 >= 1
              /\ Slice(s, j4, j4 + 1) = <<" ","+">>
              /\ n3 >= 1
              /\ Slice(s, j8, j8 + 2) = <<" ","@","@">>
    IN  IF ok
        THEN [ok |-> TRUE,
              m |-> <<Slice(s, j1, j2 - 1), Slice(s, j3, j4 - 1),
                      Slice(s, j5, j6 - 1), Slice(s, j7, j8 - 1),
                      Slice(s, j10, Len(s))>>]
        ELSE [ok |-> FALSE, m |-> <<>>]

\* hunkHeaderReg.FindStringSubmatch(s): the leftmost match, from position i on
RECURSIVE hunkHeaderFind(_, _)
hunkHeaderFind(s, i) ==
    IF i > Len(s) THEN [ok |-> FALSE, m |-> <<>>]
    ELSE IF hunkHeaderAt(s, i).ok THEN hunkHeaderAt(s, i)
    ELSE hunkHeaderFind(s, i + 1)

\* lineMode that takes a line of any other first character for an Unchanged one
lineModeLenient(line) ==
    CASE line[1] = "+" -> [ok |-> TRUE, mode |-> DiffLineModeAdded]
      [] line[1] = "-" -> [ok |-> TRUE, mode |-> DiffLineModeRemoved]
      [] OTHER -> [ok |-> TRUE, mode |-> DiffLineModeUnchanged]

\* lineMode(line): [ok |-> whether err is nil, mode]
lineMode(line) ==
    CASE line[1] = " " -> [ok |-> TRUE, mode |-> DiffLineModeUnchanged]
      [] line[1] = "+" -> [ok |-> TRUE, mode |-> DiffLineModeAdded]
      [] line[1] = "-" -> [ok |-> TRUE, mode |-> DiffLineModeRemoved]
      [] OTHER -> [ok |-> FALSE, mode |-> 0]

isSourceLine(line) ==
    IF line = noNewline THEN FALSE
    ELSE IF Len(line) = 0
            \/ (Len(line) >= 3 /\ (SubSeq(line, 1, 3) = <<"-","-","-">>
                                   \/ SubSeq(line, 1, 3) = <<"+","+","+">>))
    THEN FALSE
    ELSE TRUE

-----------------------------------------------------------------------------
(* The state of Parse and the values it builds.                            *)

\* DiffRange{}
EmptyRange == [Start |-> 0, Length |-> 0, Lines |-> <<>>]

\* &DiffHunk{}
EmptyHunk == [HunkHeader |-> <<>>, OrigRange |-> EmptyRange,
              NewRange |-> EmptyRange, WholeRange |-> EmptyRange]

\* &DiffFile{}
EmptyFile == [DiffHeader |-> <<>>, Mode |-> 0, OrigName |-> <<>>, NewName |-> <<>>,
              Hunks |-> <<>>, SimilarityIndex |-> 0]

\* the nil pointer hunk
NilHunk == [f |-> 0, h |-> 0]

\* (hunk *DiffHunk) Length()
Length(h) == Len(h.WholeRange.Lines) + 1

\* Changed has not been called on the Diff
NotCalled == [called |-> FALSE, dFiles |-> <<>>]

\* there is no other invocation
NoPeer == [pc |-> "none"]

\* the state of Parse before the first line of the document doc
Begin(doc) ==
    /\ lines = doc
    /\ idx = 0
    /\ pc = "loop"
    /\ err = ""
    /\ files = <<>>
    /\ file = 0
    /\ hunk = NilHunk
    /\ addedCount = 0
    /\ removedCount = 0
    /\ inHunk = FALSE
    /\ diffPosCount = 0
    /\ firstHunkInFile = FALSE
    /\ origin = <<>>
    /\ changed = NotCalled
    /\ running = 1
    /\ peer = NoPeer
    /\ hunkLineCount = 0

\* l, the line of this turn of the loop
Line == lines[idx + 1]

\* The case of the switch that line l takes: the first whose condition holds
Case(l, ih) ==
    IF HasPrefix(l, diffPrefix) THEN "diff"
    ELSE IF l = newDevNull THEN "newDevNull"
    ELSE IF l = oldDevNull THEN "oldDevNull"
    ELSE IF HasPrefix(l, similarityPrefix) THEN "similarity"
    ELSE IF HasPrefix(l, oldFilePrefix) THEN "oldFile"
    ELSE IF HasPrefix(l, newFilePrefix) THEN "newFile"
    ELSE IF HasPrefix(l, renameFromPrefix) THEN "renameFrom"
    ELSE IF HasPrefix(l, renameToPrefix) THEN "renameTo"
    ELSE IF HasPrefix(l, binaryPrefix) THEN "binary"
    ELSE IF HasPrefix(l, hunkPrefix) THEN "hunk"
    ELSE IF ih /\ isSourceLine(l) THEN "source"
    ELSE "none"

\* the loop is at a line that takes case c
AtCase(c) == pc = "loop" /\ idx < Len(lines) /\ Case(Line, inHunk) = c

\* a nil pointer is dereferenced: the program panics, Parse returns nothing
Panic ==
    /\ pc' = "panic"
    /\ diffPosCount' = diffPosCount + 1
    /\ UNCHANGED <<outside, lines, idx, err, files, file, hunk, addedCount, removedCount,
                   inHunk, firstHunkInFile, origin>>

\* the case changes *file to f and nothing else; the loop goes on
SetFile(f) ==
    /\ files' = [files EXCEPT ![file] = f]
    /\ idx' = idx + 1
    /\ diffPosCount' = diffPosCount + 1
    /\ UNCHANGED <<outside, lines, pc, err, file, hunk, addedCount, removedCount,
                   inHunk, firstHunkInFile, origin>>

\* the header block of the file that the line at idx opens
DiffHeaderOf(l) ==
    IF Len(lines) > idx + 3
    THEN LET index == lines[idx + 2]
             mp1 == lines[idx + 3]
             mp2 == lines[idx + 4]
             h1 == IF reinReg(index) THEN l \o <<"\n">> \o index ELSE l
         IN  IF rempReg(mp1) /\ rempReg(mp2)
             THEN h1 \o <<"\n">> \o mp1 \o <<"\n">> \o mp2
             ELSE h1
    ELSE l

-----------------------------------------------------------------------------
(* The cases of the switch, one action each.                               *)

\* CaseDiff that leaves the hunk of the file before open
CaseDiffKeepsHunk ==
    /\ AtCase("diff")
    /\ files' = Append(files, [EmptyFile EXCEPT !.DiffHeader = DiffHeaderOf(Line),
                                                !.Mode = FileModeModified])
    /\ file' = Len(files) + 1
    /\ firstHunkInFile' = TRUE
    /\ idx' = idx + 1
    /\ diffPosCount' = diffPosCount + 1
    /\ origin' = Append(origin, [at |-> idx + 1, hunks |-> <<>>])
    /\ UNCHANGED <<outside, lines, pc, err, hunk, addedCount, removedCount, inHunk>>

\* case strings.HasPrefix(l, "diff ")
CaseDiff ==
    /\ AtCase("diff")
    /\ files' = Append(files, [EmptyFile EXCEPT !.DiffHeader = DiffHeaderOf(Line),
                                                !.Mode = FileModeModified])
    /\ file' = Len(files) + 1
    /\ inHunk' = FALSE
    /\ firstHunkInFile' = TRUE
    /\ idx' = idx + 1
    /\ diffPosCount' = diffPosCount + 1
    /\ origin' = Append(origin, [at |-> idx + 1, hunks |-> <<>>])
    /\ UNCHANGED <<outside, lines, pc, err, hunk, addedCount, removedCount>>

\* case l == "+++ /dev/null"
CaseNewDevNull ==
    /\ AtCase("newDevNull")
    /\ IF file = 0 THEN Panic
       ELSE SetFile([files[file] EXCEPT !.Mode = FileModeDeleted])

\* case l == "--- /dev/null"
CaseOldDevNull ==
    /\ AtCase("oldDevNull")
    /\ IF file = 0 THEN Panic
       ELSE SetFile([files[file] EXCEPT !.Mode = FileModeNew])

\* case strings.HasPrefix(l, similarityPrefix)
CaseSimilarity ==
    /\ AtCase("similarity")
    /\ IF file = 0 THEN Panic
       ELSE SetFile([files[file] EXCEPT
                !.Mode = FileModeRenamed,
                !.SimilarityIndex =
                    Atoi(TrimSuffix(TrimPrefix(Line, similarityPrefix), <<"%">>)).val])

\* case strings.HasPrefix(l, oldFilePrefix)
CaseOldFile ==
    /\ AtCase("oldFile")
    /\ IF file = 0 THEN Panic
       ELSE SetFile([files[file] EXCEPT
                !.OrigName = parseFileName(TrimPrefix(Line, oldFilePrefix))])

\* case strings.HasPrefix(l, newFilePrefix)
CaseNewFile ==
    /\ AtCase("newFile")
    /\ IF file = 0 THEN Panic
       ELSE SetFile([files[file] EXCEPT
                !.NewName = parseFileName(TrimPrefix(Line, newFilePrefix))])

\* case strings.HasPrefix(l, renameFromPrefix)
CaseRenameFrom ==
    /\ AtCase("renameFrom")
    /\ IF file = 0 THEN Panic
       ELSE SetFile([files[file] EXCEPT
                !.OrigName = parseFileName(TrimPrefix(Line, renameFromPrefix))])

\* CaseRenameTo that opens an entry of its own for the new name
CaseRenameToOpens ==
    /\ AtCase("renameTo")
    /\ files' = Append(files, [EmptyFile EXCEPT
                     !.Mode = FileModeRenamed,
                     !.NewName = parseFileName(TrimPrefix(Line, renameToPrefix))])
    /\ file' = Len(files) + 1
    /\ origin' = Append(origin, [at |-> idx + 1, hunks |-> <<>>])
    /\ idx' = idx + 1
    /\ diffPosCount' = diffPosCount + 1
    /\ UNCHANGED <<outside, lines, pc, err, hunk, addedCount, removedCount, inHunk,
                   firstHunkInFile>>

\* case strings.HasPrefix(l, renameToPrefix)
CaseRenameTo ==
    /\ AtCase("renameTo")
    /\ IF file = 0 THEN Panic
       ELSE SetFile([files[file] EXCEPT
                !.NewName = parseFileName(TrimPrefix(Line, renameToPrefix))])

\* case strings.HasPrefix(l, binaryPrefix)
CaseBinary ==
    /\ AtCase("binary")
    /\ IF file = 0 THEN Panic
       ELSE LET binaryDiffer == TrimSuffix(TrimPrefix(Line, binaryPrefix),
                                           <<" ","d","i","f","f","e","r">>)
                fileNames == Split(binaryDiffer, <<" ","a","n","d"," ">>)
            IN  IF Len(fileNames) # 2
                THEN /\ pc' = "error"
                     /\ err' = "invalid binary diff"
                     /\ files' = [files EXCEPT ![file].Mode = FileModeModified]
                     /\ diffPosCount' = diffPosCount + 1
                     /\ UNCHANGED <<outside, lines, idx, file, hunk, addedCount, removedCount,
                                    inHunk, firstHunkInFile, origin>>
                ELSE SetFile([files[file] EXCEPT
                         !.Mode = FileModeModified,
                         !.OrigName = parseFileName(fileNames[1]),
                         !.NewName = parseFileName(fileNames[2])])

\* The ranges a matched hunk header gives: [ok, a, b, c, d], the four numbers of
\* the code; ok is FALSE when a strconv.Atoi fails
hunkRanges(m) ==
    LET a == Atoi(m[1])
        b == IF Len(m[2]) > 0 THEN Atoi(m[2]) ELSE a
        c == Atoi(m[3])
        d == IF Len(m[4]) > 0 THEN Atoi(m[4]) ELSE c
    IN  [ok |-> a.ok /\ b.ok /\ c.ok /\ d.ok,
         a |-> a.val, b |-> b.val, c |-> c.val, d |-> d.val]

\* hunkPos with the reset at the first hunk header of a file left out
hunkPosNoReset == diffPosCount + 1

\* hunkPos with the reset done at every hunk header
hunkPosEveryHunk == IF TRUE THEN 0 ELSE diffPosCount + 1

\* the position counter once the hunk header is read: the first hunk header of a
\* file sets it to zero
hunkPos == IF firstHunkInFile THEN 0 ELSE diffPosCount + 1

\* case strings.HasPrefix(l, "@@ ")
CaseHunkHeader ==
    /\ AtCase("hunk")
    /\ IF file = 0 THEN Panic
       ELSE LET found == hunkHeaderFind(Line, 1)
                r == hunkRanges(found.m)
                k == Len(files[file].Hunks) + 1
            IN  /\ diffPosCount' = hunkPos
                /\ firstHunkInFile' = FALSE
                /\ inHunk' = TRUE
                /\ hunk' = [f |-> file, h |-> k]
                /\ origin' = [origin EXCEPT ![file].hunks =
                                  Append(@, [at |-> idx + 1, src |-> <<>>])]
                /\ UNCHANGED <<outside, lines, file>>
                /\ IF ~found.ok
                   THEN /\ pc' = "error"
                        /\ err' = "Error parsing line"
                        /\ files' = [files EXCEPT ![file].Hunks = Append(@, EmptyHunk)]
                        /\ UNCHANGED <<idx, addedCount, removedCount>>
                   ELSE IF ~r.ok
                   THEN /\ pc' = "error"
                        /\ err' = "strconv.Atoi"
                        /\ files' = [files EXCEPT ![file].Hunks = Append(@, EmptyHunk)]
                        /\ UNCHANGED <<idx, addedCount, removedCount>>
                   ELSE /\ files' = [files EXCEPT ![file].Hunks = Append(@,
                                [HunkHeader |-> found.m[5],
                                 OrigRange |-> [Start |-> r.a, Length |-> r.b, Lines |-> <<>>],
                                 NewRange |-> [Start |-> r.c, Length |-> r.d, Lines |-> <<>>],
                                 WholeRange |-> EmptyRange])]
                        /\ addedCount' = r.c
                        /\ removedCount' = r.a
                        /\ idx' = idx + 1
                        /\ UNCHANGED <<pc, err>>

\* addLine that appends both copies of an Unchanged line to WholeRange
addLineBoth(h, l, m, added, removed, pos) ==
    LET line == [Mode |-> m, Number |-> 0, Content |-> Tail(l), Position |-> pos]
        newLine == [line EXCEPT !.Number = added]
        origLine == [line EXCEPT !.Number = removed]
    IN  IF m = DiffLineModeAdded
        THEN [h EXCEPT !.NewRange.Lines = Append(@, newLine),
                       !.WholeRange.Lines = Append(@, newLine)]
        ELSE IF m = DiffLineModeRemoved
        THEN [h EXCEPT !.OrigRange.Lines = Append(@, origLine),
                       !.WholeRange.Lines = Append(@, origLine)]
        ELSE [h EXCEPT !.NewRange.Lines = Append(@, newLine),
                       !.WholeRange.Lines = Append(Append(@, newLine), origLine),
                       !.OrigRange.Lines = Append(@, origLine)]

\* The hunk h with the content line l of mode m added to its ranges, numbered by
\* the counters added and removed and placed at position pos
addLine(h, l, m, added, removed, pos) ==
    LET line == [Mode |-> m, Number |-> 0, Content |-> Tail(l), Position |-> pos]
        newLine == [line EXCEPT !.Number = added]
        origLine == [line EXCEPT !.Number = removed]
    IN  IF m = DiffLineModeAdded
        THEN [h EXCEPT !.NewRange.Lines = Append(@, newLine),
                       !.WholeRange.Lines = Append(@, newLine)]
        ELSE IF m = DiffLineModeRemoved
        THEN [h EXCEPT !.OrigRange.Lines = Append(@, origLine),
                       !.WholeRange.Lines = Append(@, origLine)]
        ELSE [h EXCEPT !.NewRange.Lines = Append(@, newLine),
                       !.WholeRange.Lines = Append(@, newLine),
                       !.OrigRange.Lines = Append(@, origLine)]

\* nextAdded that counts the Added lines only
nextAddedOnly(m, added) == IF m = DiffLineModeAdded THEN added + 1 ELSE added

\* addedCount after a content line of mode m
nextAdded(m, added) == IF m = DiffLineModeRemoved THEN added ELSE added + 1

\* removedCount after a content line of mode m
nextRemoved(m, removed) == IF m = DiffLineModeAdded THEN removed ELSE removed + 1

\* case inHunk && isSourceLine(l)
CaseSourceLine ==
    /\ AtCase("source")
    /\ LET m == lineMode(Line)
       IN  IF ~m.ok
           THEN /\ pc' = "error"
                /\ err' = "could not parse line mode for line"
                /\ diffPosCount' = diffPosCount + 1
                /\ UNCHANGED <<outside, lines, idx, files, file, hunk, addedCount, removedCount,
                               inHunk, firstHunkInFile, origin>>
           ELSE /\ files' = [files EXCEPT ![hunk.f].Hunks[hunk.h] =
                                 addLine(@, Line, m.mode, addedCount, removedCount,
                                         diffPosCount + 1)]
                /\ addedCount' = nextAdded(m.mode, addedCount)
                /\ removedCount' = nextRemoved(m.mode, removedCount)
                /\ origin' = [origin EXCEPT ![hunk.f].hunks[hunk.h].src = Append(@, idx + 1)]
                /\ idx' = idx + 1
                /\ diffPosCount' = diffPosCount + 1
                /\ UNCHANGED <<outside, lines, pc, err, file, hunk, inHunk, firstHunkInFile>>

\* NoCase with the position counted in the cases of the switch only
NoCaseNoCount ==
    /\ AtCase("none")
    /\ idx' = idx + 1
    /\ UNCHANGED <<outside, lines, pc, err, files, file, hunk, addedCount, removedCount,
                   inHunk, diffPosCount, firstHunkInFile, origin>>

\* NoCase that takes a line it does not know outside a hunk for an error
NoCaseStrict ==
    /\ AtCase("none")
    /\ diffPosCount' = diffPosCount + 1
    /\ IF inHunk
       THEN /\ idx' = idx + 1
            /\ UNCHANGED <<pc, err>>
       ELSE /\ pc' = "error"
            /\ err' = "unknown line"
            /\ UNCHANGED idx
    /\ UNCHANGED <<outside, lines, files, file, hunk, addedCount, removedCount,
                   inHunk, firstHunkInFile, origin>>

\* no case of the switch holds: the line only counts for the position
NoCase ==
    /\ AtCase("none")
    /\ idx' = idx + 1
    /\ diffPosCount' = diffPosCount + 1
    /\ UNCHANGED <<outside, lines, pc, err, files, file, hunk, addedCount, removedCount,
                   inHunk, firstHunkInFile, origin>>

\* return &diff, nil
Return ==
    /\ pc = "loop"
    /\ idx = Len(lines)
    /\ pc' = "done"
    /\ UNCHANGED <<outside, lines, idx, err, files, file, hunk, addedCount, removedCount,
                   inHunk, diffPosCount, firstHunkInFile, origin>>

\* the empty map[string][]int, and the value of the map m at the key k (nil,
\* the empty slice, for a key it does not hold)
EmptyMap == <<>>
MapGet(m, k) == IF k \in DOMAIN m THEN m[k] ELSE <<>>

\* m with m[k] = v
MapPut(m, k, v) == [x \in DOMAIN m \cup {k} |-> IF x = k THEN v ELSE m[x]]

\* the loop over h.NewRange.Lines: the map m after the lines ls of a hunk of the
\* file named name
RECURSIVE changedLines(_, _, _)
changedLines(m, name, ls) ==
    IF ls = <<>> THEN m
    ELSE changedLines(IF Head(ls).Mode = DiffLineModeAdded
                      THEN MapPut(m, name, Append(MapGet(m, name), Head(ls).Number))
                      ELSE m,
                      name, Tail(ls))

\* the loop over f.Hunks
RECURSIVE changedHunks(_, _, _)
changedHunks(m, name, hs) ==
    IF hs = <<>> THEN m
    ELSE changedHunks(changedLines(m, name, Head(hs).NewRange.Lines), name, Tail(hs))

\* the loop over d.Files that skips no file
RECURSIVE changedFilesAll(_, _)
changedFilesAll(m, fs) ==
    IF fs = <<>> THEN m
    ELSE changedFilesAll(changedHunks(m, Head(fs).NewName, Head(fs).Hunks), Tail(fs))

\* the loop over d.Files: a file of mode Deleted is skipped
RECURSIVE changedFiles(_, _)
changedFiles(m, fs) ==
    IF fs = <<>> THEN m
    ELSE changedFiles(IF Head(fs).Mode = FileModeDeleted THEN m
                      ELSE changedHunks(m, Head(fs).NewName, Head(fs).Hunks),
                      Tail(fs))

\* (d *Diff) Changed(), for d.Files = fs
Changed(fs) == changedFiles(EmptyMap, fs)

\* Changed is called on the Diff that Parse returned
CallChanged ==
    /\ pc = "done"
    /\ ~changed.called
    /\ changed' = [called |-> TRUE, dFiles |-> Changed(files)]
    /\ UNCHANGED <<running, peer, hunkLineCount, lines, idx, pc, err, files, file, hunk,
                   addedCount, removedCount, inHunk, diffPosCount, firstHunkInFile, origin>>

Next ==
    \/ CallChanged
    \/ CaseDiff
    \/ CaseNewDevNull
    \/ CaseOldDevNull
    \/ CaseSimilarity
    \/ CaseOldFile
    \/ CaseNewFile
    \/ CaseRenameFrom
    \/ CaseRenameTo
    \/ CaseBinary
    \/ CaseHunkHeader
    \/ CaseSourceLine
    \/ NoCase
    \/ Return

-----------------------------------------------------------------------------
(* The documents Parse is run on.  A document is the sequence of its       *)
(* lines; every non-empty sequence of lines is the Split of some string.   *)

\* the documents of 1 to n lines drawn from the set A
Docs(A, n) == UNION {[1..k -> A] : k \in 1..n}

\* the documents of A, and those that follow the line first
After(first, A, n) == {<<first>>} \cup {<<first>> \o d : d \in Docs(A, n)}

\* diff --git a/f b/f
lnDiff == <<"d","i","f","f"," ","-","-","g","i","t"," ","a","/","f"," ","b","/","f">>

\* index 1a..2b 100644
lnIndex == <<"i","n","d","e","x"," ","1","a",".",".","2","b"," ","1","0","0","6","4","4">>

\* --- a/f
lnOld == <<"-","-","-"," ","a","/","f">>

\* +++ b/g
lnNew == <<"+","+","+"," ","b","/","g">>

\* +++ "b/g\303\244 h"
lnNewQuoted == <<"+","+","+"," ","\"","b","/","g","\\","3","0","3","\\","2","4","4"," ","h","\"">>

\* new file mode 100644
lnNewFileMode == <<"n","e","w"," ","f","i","l","e"," ","m","o","d","e"," ","1","0","0","6","4","4">>

\* similarity index 90%
lnSimilarity == <<"s","i","m","i","l","a","r","i","t","y"," ","i","n","d","e","x"," ","9","0","%">>

\* rename from f
lnRenameFrom == <<"r","e","n","a","m","e"," ","f","r","o","m"," ","f">>

\* rename to g
lnRenameTo == <<"r","e","n","a","m","e"," ","t","o"," ","g">>

\* Binary files a/f and b/g differ
lnBinary == <<"B","i","n","a","r","y"," ","f","i","l","e","s"," ","a","/","f"," ","a","n","d"," ","b","/","g"," ","d","i","f","f","e","r">>

\* @@ -1,2 +1,3 @@
lnHunk1 == <<"@","@"," ","-","1",",","2"," ","+","1",",","3"," ","@","@">>

\* @@ -7 +5,2 @@ fn
lnHunk2 == <<"@","@"," ","-","7"," ","+","5",",","2"," ","@","@"," ","f","n">>

\* @@ -0,0 +1,1 @@
lnHunk0 == <<"@","@"," ","-","0",",","0"," ","+","1",",","1"," ","@","@">>

\* +a
lnAdded == <<"+","a">>

\* -b
lnRemoved == <<"-","b">>

\*  c
lnUnchanged == <<" ","c">>

\* ---x
lnRemovedDashes == <<"-","-","-","x">>

\* the empty line
lnBlank == <<>>

\* a document that takes every case of the switch but the binary one
sampleText ==
    <<lnDiff, lnIndex, lnSimilarity, lnRenameFrom, lnRenameTo, lnOld, lnNew,
      lnHunk1, lnAdded, lnRemoved, lnUnchanged, noNewline, lnBlank>>

\* a deleted file, a new file and a binary file
sampleBinary == <<lnDiff, lnOld, newDevNull, lnDiff, oldDevNull, lnNew, lnDiff, lnBinary>>

Samples == {sampleText, sampleBinary}

\* the largest number of lines that follow the first line of a document of hunks
MaxHunkLines == 4

\* the lines of the documents of hunks
HunkLines == {lnDiff, lnHunk1, lnHunk2, lnAdded, lnRemoved, lnUnchanged,
              noNewline, lnRemovedDashes}

\* one file and what follows its diff line: hunk headers, content lines, more files
HunkDocs == After(lnDiff, HunkLines, MaxHunkLines)

InitHunk == \E doc \in HunkDocs \cup Samples : Begin(doc)

SpecHunk == InitHunk /\ [][Next]_vars

-----------------------------------------------------------------------------
(* Properties of the hunks of a parsed diff.                               *)

\* the files of the Diff that Parse returns, and the hunks of file f
FileIds == 1..Len(files)
HunkIds(f) == 1..Len(files[f].Hunks)

\* the line number (1-based) of the header of hunk h of file f
HeaderAt(f, h) == origin[f].hunks[h].at

\* the line numbers of the content lines of hunk h of file f, in order
SourceAt(f, h) == origin[f].hunks[h].src

\* The last line that hunk h of file f can take content from: the line before
\* the next hunk header of the file, before the next file, or the last line
HunkEnd(f, h) ==
    IF h < Len(origin[f].hunks) THEN origin[f].hunks[h + 1].at - 1
    ELSE IF f < Len(origin) THEN origin[f + 1].at - 1
    ELSE Len(lines)

\* C1: in every hunk of a returned Diff the i-th line (from 0) of NewRange is
\* numbered NewRange.Start + i and is Added or Unchanged, and the i-th line of
\* OrigRange is numbered OrigRange.Start + i and is Removed or Unchanged, in the
\* first hunk and in every later one.
C1_Numbering ==
    pc = "done" =>
        \A f \in FileIds : \A h \in HunkIds(f) :
            LET new == files[f].Hunks[h].NewRange
                orig == files[f].Hunks[h].OrigRange
            IN  /\ \A i \in 1..Len(new.Lines) :
                      /\ new.Lines[i].Number = new.Start + (i - 1)
                      /\ new.Lines[i].Mode \in {DiffLineModeAdded, DiffLineModeUnchanged}
                /\ \A i \in 1..Len(orig.Lines) :
                      /\ orig.Lines[i].Number = orig.Start + (i - 1)
                      /\ orig.Lines[i].Mode \in {DiffLineModeRemoved, DiffLineModeUnchanged}

\* a returned Diff with a file of two hunks that start at different numbers,
\* each with lines on both sides
C1_Witness ==
    /\ pc = "done"
    /\ \E f \in FileIds :
          /\ Len(files[f].Hunks) >= 2
          /\ files[f].Hunks[1].NewRange.Start # files[f].Hunks[2].NewRange.Start
          /\ files[f].Hunks[1].OrigRange.Start # files[f].Hunks[2].OrigRange.Start
          /\ \A h \in 1..2 : /\ Len(files[f].Hunks[h].NewRange.Lines) >= 1
                             /\ Len(files[f].Hunks[h].OrigRange.Lines) >= 1

\* C2 as stated: in every hunk of a returned Diff, the first and the later ones,
\* the positions of the content lines in order of appearance are 1, 2, ..., k,
\* and a no-newline line leaves no gap.
C2_Original ==
    pc = "done" =>
        \A f \in FileIds : \A h \in HunkIds(f) :
            LET whole == files[f].Hunks[h].WholeRange.Lines
            IN  \A i \in 1..Len(whole) : whole[i].Position = i

\* C2 as amended: in every hunk of a returned Diff the positions of the content
\* lines in order of appearance are at least 1 and strictly increasing, two
\* successive content lines being as far apart in position as they are in the
\* input (so a no-newline line between them leaves a gap of one); they are
\* 1, 2, ..., k exactly when the hunk is the first of its file and its content
\* lines follow the hunk header with no other line in between.
C2_Amended ==
    pc = "done" =>
        \A f \in FileIds : \A h \in HunkIds(f) :
            LET whole == files[f].Hunks[h].WholeRange.Lines
                src == SourceAt(f, h)
            IN  /\ \A i \in 1..Len(whole) : whole[i].Position >= 1
                /\ \A i \in 1..(Len(whole) - 1) :
                      /\ whole[i + 1].Position > whole[i].Position
                      /\ whole[i + 1].Position - whole[i].Position = src[i + 1] - src[i]
                /\ Len(whole) >= 1 =>
                      ((h = 1 /\ \A i \in 1..Len(whole) : src[i] = HeaderAt(f, h) + i)
                          <=> \A i \in 1..Len(whole) : whole[i].Position = i)

\* a returned Diff with a first hunk whose lines follow its header and are
\* numbered from 1, and a later hunk of the same file whose positions go on
C2_Witness ==
    /\ pc = "done"
    /\ \E f \in FileIds :
          /\ Len(files[f].Hunks) >= 2
          /\ Len(files[f].Hunks[1].WholeRange.Lines) >= 1
          /\ SourceAt(f, 1)[1] = HeaderAt(f, 1) + 1
          /\ Len(files[f].Hunks[2].WholeRange.Lines) >= 1
          /\ files[f].Hunks[2].WholeRange.Lines[1].Position > 1

\* the positions of the Unchanged lines of a range, in order
UnchangedPositions(ls) ==
    LET u == SelectSeq(ls, LAMBDA x : x.Mode = DiffLineModeUnchanged)
    IN  [i \in 1..Len(u) |-> u[i].Position]

\* C3: the position of a content line is the number of input lines from the line
\* after the first hunk header of its file up to the line itself, in every hunk
\* of the file, and the two copies of an Unchanged line have the same position.
C3_Position ==
    pc = "done" =>
        \A f \in FileIds : \A h \in HunkIds(f) :
            LET whole == files[f].Hunks[h].WholeRange.Lines
            IN  /\ \A i \in 1..Len(whole) :
                      whole[i].Position = SourceAt(f, h)[i] - HeaderAt(f, 1)
                /\ UnchangedPositions(files[f].Hunks[h].OrigRange.Lines)
                      = UnchangedPositions(files[f].Hunks[h].NewRange.Lines)

\* a returned Diff with an Unchanged line in the second hunk of a file
C3_Witness ==
    /\ pc = "done"
    /\ \E f \in FileIds :
          /\ Len(files[f].Hunks) >= 2
          /\ Len(files[f].Hunks[1].WholeRange.Lines) >= 1
          /\ \E i \in 1..Len(files[f].Hunks[2].OrigRange.Lines) :
                /\ files[f].Hunks[2].OrigRange.Lines[i].Mode = DiffLineModeUnchanged
                /\ files[f].Hunks[2].OrigRange.Lines[i].Position >= 3

\* the mode that the first character c of a content line stands for
ModeOfSign(c) ==
    CASE c = " " -> DiffLineModeUnchanged
      [] c = "+" -> DiffLineModeAdded
      [] c = "-" -> DiffLineModeRemoved

\* C5: every line inside an open hunk that starts with ' ', '+' or '-' is one
\* content line of the hunk, with the mode of that character and the rest of the
\* line as its content, whatever the rest is.
C5_Original ==
    pc = "done" =>
        \A f \in FileIds : \A h \in HunkIds(f) :
            \A n \in (HeaderAt(f, h) + 1)..HunkEnd(f, h) :
                (lines[n] # <<>> /\ lines[n][1] \in {" ", "+", "-"}) =>
                    \E i \in 1..Len(SourceAt(f, h)) :
                        /\ SourceAt(f, h)[i] = n
                        /\ files[f].Hunks[h].WholeRange.Lines[i].Mode = ModeOfSign(lines[n][1])
                        /\ files[f].Hunks[h].WholeRange.Lines[i].Content = Tail(lines[n])

\* the loop is at a no-newline line inside an open hunk
AtNoNewline == pc = "loop" /\ idx < Len(lines) /\ inHunk /\ Line = noNewline

\* C6 as stated: a no-newline line inside an open hunk adds no line to any range
\* and advances none of the counters: old number, new number, position.
C6_Original ==
    [][AtNoNewline => /\ files' = files
                      /\ addedCount' = addedCount
                      /\ removedCount' = removedCount
                      /\ diffPosCount' = diffPosCount]_vars

\* C6 as amended: a no-newline line inside an open hunk adds no line to any
\* range and advances neither the old nor the new line number; it does advance
\* the position counter by one, so the positions of the lines after it are one
\* more than if it were absent.
C6_Amended ==
    [][AtNoNewline => /\ files' = files
                      /\ addedCount' = addedCount
                      /\ removedCount' = removedCount
                      /\ diffPosCount' = diffPosCount + 1
                      /\ pc' = "loop"]_vars

\* a returned Diff with a content line read right after a no-newline line that
\* itself follows a content line of the hunk
C6_Witness ==
    /\ pc = "done"
    /\ \E f \in FileIds : \E h \in HunkIds(f) :
          \E i \in 2..Len(SourceAt(f, h)) :
              /\ lines[SourceAt(f, h)[i] - 1] = noNewline
              /\ SourceAt(f, h)[i - 1] = SourceAt(f, h)[i] - 2

-----------------------------------------------------------------------------
(* Hunk headers: the four numbers of `@@ -A[,B] +C[,D] @@`.                 *)

\* the decimal digits of the number n >= 0
RECURSIVE Itoa(_)
Itoa(n) == IF n < 10 THEN <<Digits[n + 1]>>
           ELSE Itoa(n \div 10) \o <<Digits[(n % 10) + 1]>>

\* the start s and the count n of one side of a hunk header; n < 0 omits the count
Side(s, n) == IF n < 0 THEN Itoa(s) ELSE Itoa(s) \o <<",">> \o Itoa(n)

\* the hunk header `@@ -a[,b] +c[,d] @@`
HunkLine(a, b, c, d) ==
    <<"@","@"," ","-">> \o Side(a, b) \o <<" ","+">> \o Side(c, d) \o <<" ","@","@">>

\* the largest start and the largest count of the hunk headers
MaxStart == 11
MaxLength == 2

Starts == 0..MaxStart
Lengths == (0 - 1)..MaxLength

\* one file with one hunk header, every start and count within the bounds
HeaderDocs ==
    {<<lnDiff, HunkLine(a, b, c, d)>> : a \in Starts, b \in Lengths, c \in Starts, d \in Lengths}

InitHeader == \E doc \in HeaderDocs \cup Samples : Begin(doc)

SpecHeader == InitHeader /\ [][Next]_vars

\* C4: for the header `@@ -A[,B] +C[,D] @@` OrigRange.Start = A and
\* NewRange.Start = C, OrigRange.Length is B, or 1 when B is omitted, and
\* NewRange.Length is D, or 1 when D is omitted, for every A and C.
C4_Original ==
    pc = "done" =>
        \A f \in FileIds : \A h \in HunkIds(f) :
            \A a \in Starts, b \in Lengths, c \in Starts, d \in Lengths :
                lines[HeaderAt(f, h)] = HunkLine(a, b, c, d) =>
                    /\ files[f].Hunks[h].OrigRange.Start = a
                    /\ files[f].Hunks[h].NewRange.Start = c
                    /\ files[f].Hunks[h].OrigRange.Length = (IF b < 0 THEN 1 ELSE b)
                    /\ files[f].Hunks[h].NewRange.Length = (IF d < 0 THEN 1 ELSE d)

\* C27: in every hunk of a returned Diff OrigRange.Start is at least 1 unless
\* OrigRange.Length is 0, and NewRange.Start is at least 1 unless
\* NewRange.Length is 0, whatever hunk header Parse has accepted.
C27_Original ==
    pc = "done" =>
        \A f \in FileIds : \A h \in HunkIds(f) :
            /\ files[f].Hunks[h].OrigRange.Start >= 1
                   \/ files[f].Hunks[h].OrigRange.Length = 0
            /\ files[f].Hunks[h].NewRange.Start >= 1
                   \/ files[f].Hunks[h].NewRange.Length = 0

-----------------------------------------------------------------------------
(* Documents with no `diff ` line, as `diff -u` writes them.                *)

\* +++ b/file4
lnNewFile4 == <<"+","+","+"," ","b","/","f","i","l","e","4">>

\* +hello
lnHello == <<"+","h","e","l","l","o">>

\* the largest number of lines of a document with no `diff ` line
MaxPlainLines == 3

\* file-header lines, a hunk header and a content line
PlainLines == {oldDevNull, lnNewFile4, lnHunk0, lnHello, lnSimilarity,
               lnRenameFrom, lnRenameTo, lnBinary}

\* the new file of the scenario: `--- /dev/null`, `+++ b/file4`, a hunk
plainNewFile == <<oldDevNull, lnNewFile4, lnHunk0, lnHello>>

PlainDocs == Docs(PlainLines, MaxPlainLines) \cup {plainNewFile}

InitPlain == \E doc \in PlainDocs \cup Samples : Begin(doc)

SpecPlain == InitPlain /\ [][Next]_vars

\* the document has no `diff ` line
NoDiffLine == \A n \in 1..Len(lines) : ~HasPrefix(lines[n], diffPrefix)

\* a line among the first n of the document is a file-header line or a hunk header
HeaderSeen(n) ==
    \E k \in 1..n : Case(lines[k], FALSE) \notin {"diff", "source", "none"}

\* C7: a file section with no `diff ` line is accepted: Parse never crashes on the
\* missing current file, and once a file-header line or a hunk header has been
\* read the Diff holds one file entry, with the mode and names those lines
\* describe (mode New, no OrigName, NewName file4 for the new file file4).
C7_Original ==
    NoDiffLine =>
        /\ pc # "panic"
        /\ (pc = "done" /\ HeaderSeen(Len(lines))) => Len(files) = 1
        /\ (pc = "done" /\ lines = plainNewFile) =>
               /\ files[1].Mode = FileModeNew
               /\ files[1].OrigName = <<>>
               /\ files[1].NewName = <<"f","i","l","e","4">>

-----------------------------------------------------------------------------
(* File entries: the header lines between a `diff ` line and the next.      *)

\* the largest number of lines that follow the first line of a document of headers
MaxFileLines == 3

\* the lines of the documents of file headers
FileLines == {lnDiff, lnIndex, lnNewFileMode, lnOld, lnNew, lnNewQuoted,
              oldDevNull, newDevNull, lnSimilarity, lnRenameFrom, lnRenameTo}

\* one file and what follows its diff line: header lines, more files
FileDocs == After(lnDiff, FileLines, MaxFileLines)

InitFile == \E doc \in FileDocs \cup Samples : Begin(doc)

SpecFile == InitFile /\ [][Next]_vars

\* the last line of the entry of file f: the line before the next `diff ` line
FileEnd(f) == IF f < Len(origin) THEN origin[f + 1].at - 1 ELSE Len(lines)

\* the line numbers of the lines of the entry of file f after its `diff ` line
Entry(f) == (origin[f].at + 1)..FileEnd(f)

\* what a line is as a header line, by its prefix
Kind(n) == Case(lines[n], FALSE)

\* the lines of the entry of file f whose kind is in K
OfKind(f, K) == {n \in Entry(f) : Kind(n) \in K}

\* The name that a header line of the documents carries, decoded: the prefix
\* a/ or b/ and the quotes removed, the octal escapes replaced by their bytes
NameIn(l) ==
    CASE l = lnOld -> <<"f">>
      [] l = lnNew -> <<"g">>
      [] l = lnNewQuoted -> <<"g", "\\303", "\\244", " ", "h">>
      [] l = lnRenameFrom -> <<"f">>
      [] l = lnRenameTo -> <<"g">>

\* C8: every file of a returned Diff has no NewName when its mode is Deleted, no
\* OrigName when its mode is New, and two different non-empty names when its
\* mode is Renamed, whatever the header lines of its entry and their order.
C8_Original ==
    pc = "done" =>
        \A f \in FileIds :
            /\ files[f].Mode = FileModeDeleted => files[f].NewName = <<>>
            /\ files[f].Mode = FileModeNew => files[f].OrigName = <<>>
            /\ files[f].Mode = FileModeRenamed =>
                   /\ files[f].OrigName # <<>>
                   /\ files[f].NewName # <<>>
                   /\ files[f].OrigName # files[f].NewName

\* the entry of file f has one `--- ` line, then one `+++ ` line, and apart from
\* them only hunks and lines that are no header line
OldThenNew(f) ==
    /\ Cardinality(OfKind(f, {"oldFile", "oldDevNull"})) = 1
    /\ Cardinality(OfKind(f, {"newFile", "newDevNull"})) = 1
    /\ \A o \in OfKind(f, {"oldFile", "oldDevNull"}) :
           \A n \in OfKind(f, {"newFile", "newDevNull"}) : o < n
    /\ OfKind(f, {"similarity", "renameFrom", "renameTo", "binary"}) = {}

RenameEntry(f) ==
    /\ Cardinality(OfKind(f, {"renameFrom"})) = 1
    /\ Cardinality(OfKind(f, {"renameTo"})) = 1
    /\ Cardinality(OfKind(f, {"similarity"})) <= 1
    /\ OfKind(f, {"oldFile", "oldDevNull", "newFile", "newDevNull", "binary"}) = {}

\* C10: a file entry with a `rename from X` and a `rename to Y` line has
\* OrigName X, NewName Y and mode Renamed, with or without a `similarity index`
\* line, and SimilarityIndex NN when the line `similarity index NN%` is there.
C10_Original ==
    pc = "done" =>
        \A f \in FileIds : RenameEntry(f) =>
            /\ \A n \in OfKind(f, {"renameFrom"}) : files[f].OrigName = NameIn(lines[n])
            /\ \A n \in OfKind(f, {"renameTo"}) : files[f].NewName = NameIn(lines[n])
            /\ files[f].Mode = FileModeRenamed
            /\ \A n \in OfKind(f, {"similarity"}) :
                   lines[n] = lnSimilarity => files[f].SimilarityIndex = 90

-----------------------------------------------------------------------------
(* Binary files: the lines `Binary files A and B differ`.                  *)

\* Binary files /dev/null and b/g differ
lnBinaryNew == <<"B","i","n","a","r","y"," ","f","i","l","e","s"," ","/","d","e","v","/","n","u","l","l"," ","a","n","d"," ","b","/","g"," ","d","i","f","f","e","r">>

\* Binary files a/f and /dev/null differ
lnBinaryDeleted == <<"B","i","n","a","r","y"," ","f","i","l","e","s"," ","a","/","f"," ","a","n","d"," ","/","d","e","v","/","n","u","l","l"," ","d","i","f","f","e","r">>

\* Binary files a/f differ
lnBinaryOne == <<"B","i","n","a","r","y"," ","f","i","l","e","s"," ","a","/","f"," ","d","i","f","f","e","r">>

\* Binary files a/f and b/g and b/h differ
lnBinaryThree == <<"B","i","n","a","r","y"," ","f","i","l","e","s"," ","a","/","f"," ","a","n","d"," ","b","/","g"," ","a","n","d"," ","b","/","h"," ","d","i","f","f","e","r">>

\* the largest number of lines of a document of binary files
MaxBinaryLines == 3

\* the lines of the documents of binary files
BinaryLines == {lnDiff, lnIndex, lnBinary, lnBinaryNew, lnBinaryDeleted,
                lnBinaryOne, lnBinaryThree}

\* binary files with and without the `diff ` line that opens their entry
BinaryDocs == Docs(BinaryLines, MaxBinaryLines)

InitBinary == \E doc \in BinaryDocs \cup Samples : Begin(doc)

SpecBinary == InitBinary /\ [][Next]_vars

\* the entry of file f has one `Binary files ` line and no other header line
BinaryEntry(f) ==
    /\ Cardinality(OfKind(f, {"binary"})) = 1
    /\ OfKind(f, {"oldFile", "oldDevNull", "newFile", "newDevNull", "similarity",
                  "renameFrom", "renameTo", "hunk"}) = {}

\* C11: within a file entry the line `Binary files A and B differ` gives mode
\* Modified, OrigName A and NewName B decoded, and no hunk; when A is /dev/null
\* the entry ends with mode New and no OrigName, and when B is /dev/null with
\* mode Deleted and no NewName.
C11_Original ==
    pc = "done" =>
        \A f \in FileIds : BinaryEntry(f) =>
            \A n \in OfKind(f, {"binary"}) :
                /\ files[f].Hunks = <<>>
                /\ lines[n] = lnBinary =>
                       /\ files[f].Mode = FileModeModified
                       /\ files[f].OrigName = <<"f">>
                       /\ files[f].NewName = <<"g">>
                /\ lines[n] = lnBinaryNew =>
                       /\ files[f].Mode = FileModeNew
                       /\ files[f].OrigName = <<>>
                       /\ files[f].NewName = <<"g">>
                /\ lines[n] = lnBinaryDeleted =>
                       /\ files[f].Mode = FileModeDeleted
                       /\ files[f].OrigName = <<"f">>
                       /\ files[f].NewName = <<>>

\* the filenames of a `Binary files ` line: what is left of the line without
\* the prefix and a trailing ` differ`, split on ` and `
BinaryParts(l) ==
    Split(TrimSuffix(TrimPrefix(l, binaryPrefix), <<" ","d","i","f","f","e","r">>),
          <<" ","a","n","d"," ">>)

\* C15: a line that starts with `Binary files ` makes Parse return the error of
\* a malformed binary marker when it does not split into exactly two filenames,
\* and never gives that error when it does.
C15_Original ==
    [][AtCase("binary") =>
          IF Len(BinaryParts(Line)) # 2
          THEN pc' = "error" /\ err' = "invalid binary diff"
          ELSE pc' # "error"]_vars

-----------------------------------------------------------------------------
(* Changed: the lines added to each file of a parsed Diff.                 *)

\* the documents made of the sections ss one after the other
RECURSIVE Join(_)
Join(ss) == IF ss = <<>> THEN <<>> ELSE Head(ss) \o Join(Tail(ss))

\* The header lines of a section after its `diff ` line: a new name, another
\* new name, and a deleted file that has a new name all the same
ChangedHeaders == {<<lnNew>>, <<lnNewFile4>>, <<lnNew, newDevNull>>}

\* the hunks of a section: Added, Unchanged and Removed lines in one or two hunks
ChangedHunks == {<<lnHunk1, lnUnchanged, lnAdded, lnRemoved>>,
                 <<lnHunk1, lnAdded, lnHunk2, lnAdded, lnAdded>>,
                 <<lnHunk1, lnRemoved>>}

ChangedSections == {<<lnDiff>> \o hd \o hs : hd \in ChangedHeaders, hs \in ChangedHunks}

\* the largest number of files of a document
MaxChangedFiles == 3

ChangedDocs == {Join(ss) : ss \in Docs(ChangedSections, MaxChangedFiles)}

InitChanged == \E doc \in ChangedDocs \cup Samples : Begin(doc)

SpecChanged == InitChanged /\ [][Next]_vars

\* the Numbers of the Added lines among ls, in order
AddedNumbers(ls) ==
    LET a == SelectSeq(ls, LAMBDA x : x.Mode = DiffLineModeAdded)
    IN  [i \in 1..Len(a) |-> a[i].Number]

\* The Numbers of the Added lines of NewRange.Lines of the hunks from h on of
\* the files from f on that are named n and not Deleted, in file, hunk and
\* line order
RECURSIVE AddedIn(_, _, _)
AddedIn(n, f, h) ==
    IF f > Len(files) THEN <<>>
    ELSE IF h > Len(files[f].Hunks) THEN AddedIn(n, f + 1, 1)
    ELSE (IF files[f].NewName = n /\ files[f].Mode # FileModeDeleted
          THEN AddedNumbers(files[f].Hunks[h].NewRange.Lines)
          ELSE <<>>) \o AddedIn(n, f, h + 1)

\* C12: the map that Changed returns has, for every name n, exactly the Numbers
\* of the Added lines of NewRange.Lines of all hunks of all files named n whose
\* mode is not Deleted, in file, hunk and line order; its keys are the names
\* that have such a line, so a Deleted file gives no key and no number, and
\* Unchanged and Removed lines give nothing.
C12_Changed ==
    changed.called =>
        /\ \A f \in FileIds :
              MapGet(changed.dFiles, files[f].NewName) = AddedIn(files[f].NewName, 1, 1)
        /\ \A n \in DOMAIN changed.dFiles :
              /\ changed.dFiles[n] # <<>>
              /\ changed.dFiles[n] = AddedIn(n, 1, 1)
              /\ \E f \in FileIds : files[f].NewName = n /\ files[f].Mode # FileModeDeleted

\* Changed was called on a Diff with a Deleted file that has an Added line, and
\* with two other files of one name that have Added lines, the second also in a
\* second hunk and the first next to an Unchanged and a Removed line
C12_Witness ==
    /\ changed.called
    /\ Len(files) = 3
    /\ \A f \in FileIds : Len(files[f].Hunks) >= 1
    /\ files[1].Mode = FileModeDeleted
    /\ AddedNumbers(files[1].Hunks[1].NewRange.Lines) # <<>>
    /\ files[2].NewName = files[3].NewName
    /\ files[1].NewName = files[2].NewName
    /\ files[2].Mode # FileModeDeleted
    /\ files[3].Mode # FileModeDeleted
    /\ Len(files[2].Hunks[1].OrigRange.Lines) = 2
    /\ Len(files[3].Hunks) = 2
    /\ MapGet(changed.dFiles, files[2].NewName) = <<2, 1, 5, 6>>

-----------------------------------------------------------------------------
(* Errors: the lines that make Parse return an error, and those that end a  *)
(* hunk.                                                                    *)

\* @@ -1,2 @@
lnHunkNoNew == <<"@","@"," ","-","1",",","2"," ","@","@">>

\* @@ -99999999999999999999 +1 @@
lnHunkHuge == <<"@","@"," ","-","9","9","9","9","9","9","9","9","9","9","9","9","9","9","9","9","9","9","9","9"," ","+","1"," ","@","@">>

\* @@ x @@ -7 +5,2 @@
lnHunkEmbedded == <<"@","@"," ","x"," ","@","@"," ","-","7"," ","+","5",",","2"," ","@","@">>

\* the largest number of lines that follow the first line of a document of errors
MaxErrLines == 3

\* hunk headers good and bad, content lines, and lines that are neither
ErrLines == {lnDiff, lnHunk1, lnHunkNoNew, lnHunkHuge, lnHunkEmbedded, lnAdded,
             lnIndex, lnSimilarity, lnBinaryOne, lnBlank, noNewline}

ErrDocs == After(lnDiff, ErrLines, MaxErrLines)

InitErr == \E doc \in ErrDocs \cup Samples : Begin(doc)

SpecErr == InitErr /\ [][Next]_vars

\* the loop is at a line
AtLine == pc = "loop" /\ idx < Len(lines)

\* the line l has the form `@@ -A[,B] +C[,D] @@` from its first character on,
\* with numbers that fit an int
WellFormedHeader(l) == hunkHeaderAt(l, 1).ok /\ hunkRanges(hunkHeaderAt(l, 1).m).ok

\* C13: a line that starts with `@@ ` and does not have the form
\* `@@ -A[,B] +C[,D] @@` with numbers A and C that fit an int makes Parse
\* return an error: it is not skipped and gives no hunk.
C13_Original ==
    [][(AtLine /\ HasPrefix(Line, hunkPrefix) /\ ~WellFormedHeader(Line))
          => pc' = "error"]_vars

\* Line n of the document is inside an active hunk: a `@@ ` line comes before
\* it, with no `diff ` line from that line up to line n
InsideHunk(n) ==
    \E k \in 1..(n - 1) :
        /\ HasPrefix(lines[k], hunkPrefix)
        /\ \A j \in (k + 1)..n : ~HasPrefix(lines[j], diffPrefix)

\* the line l begins with a character other than ' ', '+' and '-' and is not
\* the no-newline line
OtherFirst(l) == l # <<>> /\ l[1] \notin {" ", "+", "-"} /\ l # noNewline

\* the line l begins as one of the header lines that the switch tests for
\* before it tests for a content line
HeaderFirst(l) ==
    \E p \in {diffPrefix, similarityPrefix, renameFromPrefix, renameToPrefix,
              binaryPrefix, hunkPrefix} : HasPrefix(l, p)

\* C14 as stated: every line inside an active hunk that begins with a character
\* other than ' ', '+' and '-' and is not the no-newline line makes Parse return
\* an error.
C14_Original ==
    [][(AtLine /\ InsideHunk(idx + 1) /\ OtherFirst(Line)) => pc' = "error"]_vars

\* C14 as amended: every line inside an active hunk that begins with a character
\* other than ' ', '+' and '-', is not the no-newline line and does not begin
\* as a header line (`similarity index `, `rename from `, `rename to `,
\* `Binary files `, `@@ `) makes Parse return the error of an unrecognized
\* line mode, and nothing is added to the hunk.
C14_Amended ==
    [][(AtLine /\ InsideHunk(idx + 1) /\ OtherFirst(Line) /\ ~HeaderFirst(Line))
          => /\ pc' = "error"
             /\ err' = "could not parse line mode for line"
             /\ files' = files]_vars

\* Parse has returned the error of an unrecognized line mode for an `index` line
\* that follows a content line of a hunk
C14_Witness ==
    /\ pc = "error"
    /\ err = "could not parse line mode for line"
    /\ idx >= 3
    /\ Line = lnIndex
    /\ lines[idx] = lnAdded
    /\ Len(files[file].Hunks[hunk.h].WholeRange.Lines) = 1

\* The error that line n of the document raises when Parse reads it, "" when it
\* raises none: a `Binary files ` line that does not split in two, a `@@ ` line
\* in which the form of a hunk header is not found or a number does not fit, a
\* line inside a hunk whose first character is no line mode
ErrorAt(n) ==
    LET l == lines[n]
        c == Case(l, InsideHunk(n))
        found == hunkHeaderFind(l, 1)
    IN  IF c = "binary" /\ Len(BinaryParts(l)) # 2 THEN "invalid binary diff"
        ELSE IF c = "hunk" /\ ~found.ok THEN "Error parsing line"
        ELSE IF c = "hunk" /\ ~hunkRanges(found.m).ok THEN "strconv.Atoi"
        ELSE IF c = "source" /\ OtherFirst(l) THEN "could not parse line mode for line"
        ELSE ""

\* the lines of the document that raise an error
Offending == {n \in 1..Len(lines) : ErrorAt(n) # ""}

\* C16: Parse returns either the Diff and no error, after it has read every line,
\* or no Diff and an error, never anything else; the error is the one of the
\* first line of the document that raises one, and Parse reads no line after it.
C16_Original ==
    /\ pc \in {"loop", "done", "error"}
    /\ pc = "done" => (err = "" /\ idx = Len(lines) /\ Offending = {})
    /\ pc = "error" =>
           /\ err # ""
           /\ idx + 1 \in Offending
           /\ \A n \in Offending : idx + 1 <= n
           /\ err = ErrorAt(idx + 1)
    /\ pc = "loop" => \A n \in Offending : idx < n

\* the line l is neither a content line of a hunk nor the no-newline line: it is
\* blank, a `--- ` or `+++ ` file-header line, or begins with another character
\* than ' ', '+' and '-'
NonContent(l) ==
    /\ l # noNewline
    /\ \/ l = <<>>
       \/ l[1] \notin {" ", "+", "-"}
       \/ HasPrefix(l, oldFilePrefix)
       \/ HasPrefix(l, newFilePrefix)

\* The hunk that was open before line n has ended: since the last `@@ ` header
\* before line n there is a line that is neither content nor the no-newline line
HunkEnded(n) ==
    \E k \in 1..(n - 1) :
        /\ HasPrefix(lines[k], hunkPrefix)
        /\ \A j \in (k + 1)..(n - 1) : ~HasPrefix(lines[j], hunkPrefix)
        /\ \E j \in (k + 1)..(n - 1) : NonContent(lines[j])

\* C20: a hunk ends at the first line inside it that is neither a content line
\* nor the no-newline line (a file-header line, a `similarity index` or `rename`
\* line, a blank line): a later line that begins with ' ', '+' or '-' is added
\* to no hunk until a new `@@ ` header is read.
C20_Original ==
    [][(AtLine /\ Line # <<>> /\ Line[1] \in {" ", "+", "-"} /\ HunkEnded(idx + 1))
          => \A f \in FileIds : files'[f].Hunks = files[f].Hunks]_vars

-----------------------------------------------------------------------------
(* File names with escapes that do not decode.                              *)

\* --- "a/x\q"
lnOldBadEscape == <<"-","-","-"," ","\"","a","/","x","\\","q","\"">>

\* +++ "b/y\400"
lnNewBadOctal == <<"+","+","+"," ","\"","b","/","y","\\","4","0","0","\"">>

\* rename from "x\q"
lnRenameFromBad == <<"r","e","n","a","m","e"," ","f","r","o","m"," ","\"","x","\\","q","\"">>

\* the largest number of lines that follow the first line of a document of names
MaxNameLines == 3

\* name lines with an escape that is none and an octal escape above 255, a name
\* line that decodes, a hunk
NameLines == {lnDiff, lnOldBadEscape, lnNewBadOctal, lnRenameFromBad, lnNewQuoted,
              lnHunk1, lnAdded}

NameDocs == After(lnDiff, NameLines, MaxNameLines)

InitName == \E doc \in NameDocs \cup Samples : Begin(doc)

SpecName == InitName /\ [][Next]_vars

\* the filename token of a name line: the line without its prefix
NameToken(l) ==
    IF HasPrefix(l, oldFilePrefix) THEN TrimPrefix(l, oldFilePrefix)
    ELSE IF HasPrefix(l, newFilePrefix) THEN TrimPrefix(l, newFilePrefix)
    ELSE IF HasPrefix(l, renameFromPrefix) THEN TrimPrefix(l, renameFromPrefix)
    ELSE TrimPrefix(l, renameToPrefix)

\* the quoted tokens of the documents whose escapes do not decode:
\* "a/x\q", "b/y\400" and "x\q"
BadTokens == {<<"\"","a","/","x","\\","q","\"">>,
              <<"\"","b","/","y","\\","4","0","0","\"">>,
              <<"\"","x","\\","q","\"">>}

\* C17: a name line whose quoted token has a malformed escape records the token
\* as it is in the line, quotes and prefix included, as the name of the file,
\* and Parse goes on with the next line without an error.
C17_Original ==
    [][(AtLine /\ Case(Line, inHunk) \in {"oldFile", "newFile", "renameFrom", "renameTo"}
              /\ NameToken(Line) \in BadTokens)
          => /\ pc' = "loop"
             /\ err' = ""
             /\ idx' = idx + 1
             /\ IF Case(Line, inHunk) \in {"oldFile", "renameFrom"}
                THEN files'[file].OrigName = NameToken(Line)
                ELSE files'[file].NewName = NameToken(Line)]_vars

-----------------------------------------------------------------------------
(* File entries: which lines open one.                                      *)

\* diff --git a/g b/g
lnDiff2 == <<"d","i","f","f"," ","-","-","g","i","t"," ","a","/","g"," ","b","/","g">>

\* the largest number of lines of a document of entries
MaxEntryLines == 4

\* two different `diff ` lines, the rename lines, a hunk
EntryLines == {lnDiff, lnDiff2, lnRenameFrom, lnRenameTo, lnHunk1, lnAdded}

\* documents with and without a `diff ` line before the other lines
EntryDocs == Docs(EntryLines, MaxEntryLines)

InitEntries == \E doc \in EntryDocs \cup Samples : Begin(doc)

SpecEntries == InitEntries /\ [][Next]_vars

\* the line numbers of the `diff ` lines among the first n lines
DiffLinesTo(n) == {k \in 1..n : HasPrefix(lines[k], diffPrefix)}

\* the line number of the f-th `diff ` line of the document
NthDiffLine(f) ==
    CHOOSE k \in DiffLinesTo(Len(lines)) : Cardinality(DiffLinesTo(k)) = f

\* C18: the Diff has one entry for each `diff ` line read, in the order of those
\* lines; an entry is opened by a `diff ` line only, one at a time, with mode
\* Modified, and it is the current entry until the next is opened; no other
\* line (`rename from`, `rename to`) opens, closes or repeats an entry.
C18_Entries ==
    [][/\ Len(files') = Cardinality(DiffLinesTo(idx'))
       /\ \A f \in 1..Len(files') : HasPrefix(files'[f].DiffHeader, lines[NthDiffLine(f)])
       /\ file' = Len(files')
       /\ pc' = "done" => Len(files') = Cardinality(DiffLinesTo(Len(lines)))
       /\ Len(files') # Len(files) =>
             /\ AtLine /\ HasPrefix(Line, diffPrefix)
             /\ Len(files') = Len(files) + 1
             /\ files'[Len(files')].Mode = FileModeModified
             /\ \A f \in FileIds : files'[f] = files[f]]_vars

\* a returned Diff of two entries, opened by two different `diff ` lines, the
\* first with a `rename from` and a `rename to` line
C18_Witness ==
    /\ pc = "done"
    /\ Len(files) = 2
    /\ lines = <<lnDiff2, lnRenameFrom, lnRenameTo, lnDiff>>
    /\ files[1].DiffHeader = lnDiff2
    /\ files[2].DiffHeader = lnDiff

\* The header block that the `diff ` line at line n of the document should
\* give: the line, the `index ` line when it is the next line, and then the
\* `--- ` line and the `+++ ` line when they are the next two
ExpectedHeader(n) ==
    LET hasIndex == n + 1 <= Len(lines) /\ reinReg(lines[n + 1])
        p == IF hasIndex THEN n + 2 ELSE n + 1
        hasPair == /\ p + 1 <= Len(lines)
                   /\ HasPrefix(lines[p], oldFilePrefix)
                   /\ HasPrefix(lines[p + 1], newFilePrefix)
        h1 == IF hasIndex THEN lines[n] \o <<"\n">> \o lines[n + 1] ELSE lines[n]
    IN  IF hasPair THEN h1 \o <<"\n">> \o lines[p] \o <<"\n">> \o lines[p + 1] ELSE h1

\* C26: the DiffHeader of every entry is its `diff ` line, then the `index `
\* line when one follows directly, then the `--- ` and `+++ ` pair that follows,
\* with or without an `index ` line and whatever the number of lines after the
\* pair.
C26_Original ==
    \A f \in FileIds :
        f <= Cardinality(DiffLinesTo(Len(lines))) =>
            files[f].DiffHeader = ExpectedHeader(NthDiffLine(f))

-----------------------------------------------------------------------------
(* Two invocations of Parse at once.  Each has its own copy of the         *)
(* variables that Parse declares; the regular expressions of the package   *)
(* are shared and never written.  One invocation runs at a time, and       *)
(* between two turns of its loop the other may run instead.                *)

\* the variables of the running invocation, as they are kept while the other runs
Saved ==
    [lines |-> lines, idx |-> idx, pc |-> pc, err |-> err, files |-> files,
     file |-> file, hunk |-> hunk, addedCount |-> addedCount,
     removedCount |-> removedCount, inHunk |-> inHunk, diffPosCount |-> diffPosCount,
     firstHunkInFile |-> firstHunkInFile, origin |-> origin, changed |-> changed]

\* the variables of an invocation before the first line of the document doc
Fresh(doc) ==
    [lines |-> doc, idx |-> 0, pc |-> "loop", err |-> "", files |-> <<>>,
     file |-> 0, hunk |-> NilHunk, addedCount |-> 0, removedCount |-> 0,
     inHunk |-> FALSE, diffPosCount |-> 0, firstHunkInFile |-> FALSE,
     origin |-> <<>>, changed |-> NotCalled]

\* two invocations, of the documents d1 and d2; the first runs
BeginPair(d1, d2) ==
    /\ lines = d1
    /\ idx = 0
    /\ pc = "loop"
    /\ err = ""
    /\ files = <<>>
    /\ file = 0
    /\ hunk = NilHunk
    /\ addedCount = 0
    /\ removedCount = 0
    /\ inHunk = FALSE
    /\ diffPosCount = 0
    /\ firstHunkInFile = FALSE
    /\ origin = <<>>
    /\ changed = NotCalled
    /\ running = 1
    /\ peer = Fresh(d2)
    /\ hunkLineCount = 0

\* the invocation with the variables s has a step to take
Runnable(s) == s.pc = "loop" \/ (s.pc = "done" /\ ~s.changed.called)

\* the position counter with one counter of the package for all invocations
resumedPosShared(s) == diffPosCount

\* the position counter that the invocation with the variables s goes on with:
\* its own, a variable of Parse
resumedPos(s) == s.diffPosCount

\* the other invocation runs from here on
Switch ==
    /\ peer.pc # "none"
    /\ Runnable(peer)
    /\ lines' = peer.lines
    /\ idx' = peer.idx
    /\ pc' = peer.pc
    /\ err' = peer.err
    /\ files' = peer.files
    /\ file' = peer.file
    /\ hunk' = peer.hunk
    /\ addedCount' = peer.addedCount
    /\ removedCount' = peer.removedCount
    /\ inHunk' = peer.inHunk
    /\ diffPosCount' = resumedPos(peer)
    /\ firstHunkInFile' = peer.firstHunkInFile
    /\ origin' = peer.origin
    /\ changed' = peer.changed
    /\ running' = 3 - running
    /\ peer' = Saved
    /\ UNCHANGED hunkLineCount

NextPair == Next \/ Switch

\* the largest number of lines that follow the first line of a document of a pair
MaxPairLines == 2

\* a hunk header and content lines
PairLines == {lnHunk1, lnAdded, lnUnchanged}

PairDocs == After(lnDiff, PairLines, MaxPairLines)

InitPair ==
    \/ \E doc \in Samples : Begin(doc)
    \/ \E d1 \in PairDocs, d2 \in PairDocs : BeginPair(d1, d2)

SpecPair == InitPair /\ [][NextPair]_vars

\* the header block of the file that line i + 1 of the lines ls opens
headerOf(ls, i) ==
    LET l == ls[i + 1]
    IN  IF Len(ls) > i + 3
        THEN LET h1 == IF reinReg(ls[i + 2]) THEN l \o <<"\n">> \o ls[i + 2] ELSE l
             IN  IF rempReg(ls[i + 3]) /\ rempReg(ls[i + 4])
                 THEN h1 \o <<"\n">> \o ls[i + 3] \o <<"\n">> \o ls[i + 4]
                 ELSE h1
        ELSE l

\* One step of an invocation that runs alone, as a function of its variables s:
\* the turn of the loop of Parse for the line at s.idx, the return after the
\* last line, the call of Changed on the Diff returned
StepOf(s) ==
    LET l == s.lines[s.idx + 1]
        c == Case(l, s.inHunk)
        counted == [s EXCEPT !.diffPosCount = s.diffPosCount + 1]
        on == [counted EXCEPT !.idx = s.idx + 1]
        name(prefix) == parseFileName(TrimPrefix(l, prefix))
        parts == Split(TrimSuffix(TrimPrefix(l, binaryPrefix),
                                  <<" ","d","i","f","f","e","r">>),
                       <<" ","a","n","d"," ">>)
        found == hunkHeaderFind(l, 1)
        r == hunkRanges(found.m)
        opened == [s EXCEPT
                      !.diffPosCount = IF s.firstHunkInFile THEN 0 ELSE s.diffPosCount + 1,
                      !.firstHunkInFile = FALSE,
                      !.inHunk = TRUE,
                      !.hunk = [f |-> s.file, h |-> Len(s.files[s.file].Hunks) + 1],
                      !.origin[s.file].hunks = Append(@, [at |-> s.idx + 1, src |-> <<>>])]
        m == lineMode(l)
    IN  IF s.pc = "done" /\ ~s.changed.called
        THEN [s EXCEPT !.changed = [called |-> TRUE, dFiles |-> Changed(s.files)]]
        ELSE IF s.pc # "loop" THEN s
        ELSE IF s.idx = Len(s.lines) THEN [s EXCEPT !.pc = "done"]
        ELSE IF c = "diff"
        THEN [on EXCEPT
                 !.files = Append(@, [EmptyFile EXCEPT !.DiffHeader = headerOf(s.lines, s.idx),
                                                       !.Mode = FileModeModified]),
                 !.file = Len(s.files) + 1,
                 !.inHunk = FALSE,
                 !.firstHunkInFile = TRUE,
                 !.origin = Append(@, [at |-> s.idx + 1, hunks |-> <<>>])]
        ELSE IF c = "none" THEN on
        ELSE IF c # "source" /\ s.file = 0 THEN [counted EXCEPT !.pc = "panic"]
        ELSE IF c = "newDevNull" THEN [on EXCEPT !.files[s.file].Mode = FileModeDeleted]
        ELSE IF c = "oldDevNull" THEN [on EXCEPT !.files[s.file].Mode = FileModeNew]
        ELSE IF c = "similarity"
        THEN [on EXCEPT
                 !.files[s.file].Mode = FileModeRenamed,
                 !.files[s.file].SimilarityIndex =
                     Atoi(TrimSuffix(TrimPrefix(l, similarityPrefix), <<"%">>)).val]
        ELSE IF c = "oldFile" THEN [on EXCEPT !.files[s.file].OrigName = name(oldFilePrefix)]
        ELSE IF c = "newFile" THEN [on EXCEPT !.files[s.file].NewName = name(newFilePrefix)]
        ELSE IF c = "renameFrom"
        THEN [on EXCEPT !.files[s.file].OrigName = name(renameFromPrefix)]
        ELSE IF c = "renameTo"
        THEN [on EXCEPT !.files[s.file].NewName = name(renameToPrefix)]
        ELSE IF c = "binary"
        THEN IF Len(parts) # 2
             THEN [counted EXCEPT !.pc = "error", !.err = "invalid binary diff",
                                  !.files[s.file].Mode = FileModeModified]
             ELSE [on EXCEPT !.files[s.file].Mode = FileModeModified,
                             !.files[s.file].OrigName = parseFileName(parts[1]),
                             !.files[s.file].NewName = parseFileName(parts[2])]
        ELSE IF c = "hunk"
        THEN IF ~found.ok
             THEN [opened EXCEPT !.pc = "error", !.err = "Error parsing line",
                                 !.files[s.file].Hunks = Append(@, EmptyHunk)]
             ELSE IF ~r.ok
             THEN [opened EXCEPT !.pc = "error", !.err = "strconv.Atoi",
                                 !.files[s.file].Hunks = Append(@, EmptyHunk)]
             ELSE [opened EXCEPT
                      !.files[s.file].Hunks = Append(@,
                          [HunkHeader |-> found.m[5],
                           OrigRange |-> [Start |-> r.a, Length |-> r.b, Lines |-> <<>>],
                           NewRange |-> [Start |-> r.c, Length |-> r.d, Lines |-> <<>>],
                           WholeRange |-> EmptyRange]),
                      !.addedCount = r.c,
                      !.removedCount = r.a,
                      !.idx = s.idx + 1]
        ELSE IF ~m.ok
        THEN [counted EXCEPT !.pc = "error", !.err = "could not parse line mode for line"]
        ELSE [on EXCEPT
                 !.files[s.hunk.f].Hunks[s.hunk.h] =
                     addLine(@, l, m.mode, s.addedCount, s.removedCount, s.diffPosCount + 1),
                 !.addedCount = nextAdded(m.mode, s.addedCount),
                 !.removedCount = nextRemoved(m.mode, s.removedCount),
                 !.origin[s.hunk.f].hunks[s.hunk.h].src = Append(@, s.idx + 1)]

\* the states that an invocation goes through from s on when it runs alone
RECURSIVE RunFrom(_)
RunFrom(s) ==
    LET t == StepOf(s)
    IN  IF t = s THEN {s} ELSE {s} \cup RunFrom(t)

\* C19: with the steps of two invocations of Parse interleaved in any order,
\* each invocation goes through states of its run alone on its own document
\* only, and so ends with the same result: no step of one reads or writes a
\* variable of the other.
C19_Alone ==
    /\ Saved \in RunFrom(Fresh(lines))
    /\ peer.pc # "none" => peer \in RunFrom(Fresh(peer.lines))

\* the first invocation runs again after the second has run, both in the middle
\* of a hunk of their own document, at different positions
C19_Witness ==
    /\ peer.pc = "loop"
    /\ pc = "loop"
    /\ running = 1
    /\ lines # peer.lines
    /\ inHunk
    /\ peer.inHunk
    /\ idx >= 2
    /\ peer.idx >= 2
    /\ diffPosCount # peer.diffPosCount

-----------------------------------------------------------------------------
(* Where hunks and content lines go: the file and the hunk they are        *)
(* appended to.                                                             *)

\* the largest number of lines that follow the first line of a document of
\* files and hunks
MaxOrderLines == 4

\* two different `diff ` lines, two hunk headers, content lines
OrderLines == {lnDiff, lnDiff2, lnHunk1, lnHunk2, lnAdded, lnRemoved, lnUnchanged}

OrderDocs == After(lnDiff, OrderLines, MaxOrderLines)

InitOrder == \E doc \in OrderDocs \cup Samples : Begin(doc)

SpecOrder == InitOrder /\ [][Next]_vars

\* the sequence s is the beginning of the sequence t
IsPrefix(s, t) == Len(s) <= Len(t) /\ SubSeq(t, 1, Len(s)) = s

\* the lists of lines of the hunk new begin with those of the hunk old
HunkGrows(old, new) ==
    /\ IsPrefix(old.OrigRange.Lines, new.OrigRange.Lines)
    /\ IsPrefix(old.NewRange.Lines, new.NewRange.Lines)
    /\ IsPrefix(old.WholeRange.Lines, new.WholeRange.Lines)

\* the number of the entry that the most recent `diff ` line read has opened
RecentEntry == Cardinality(DiffLinesTo(idx))

\* C21: a hunk is created by an `@@ ` line only, empty, as the last hunk of the
\* entry of the most recent `diff ` line; a content line is added at the end of
\* the lists of the last hunk of that entry only, and only when an `@@ ` header
\* was read since the most recent `diff ` line; nothing else is added to or
\* taken from a hunk or a list of hunks, so that hunks and lines keep the order
\* of the document.
C21_Order ==
    [][/\ Len(files') >= Len(files)
       /\ \A f \in (Len(files) + 1)..Len(files') : files'[f].Hunks = <<>>
       /\ \A f \in FileIds :
             LET old == files[f].Hunks
                 new == files'[f].Hunks
             IN  /\ Len(new) >= Len(old)
                 /\ \A h \in 1..Len(old) : HunkGrows(old[h], new[h])
                 /\ Len(new) # Len(old) =>
                       /\ AtLine /\ HasPrefix(Line, hunkPrefix)
                       /\ f = RecentEntry
                       /\ Len(new) = Len(old) + 1
                       /\ new[Len(new)].WholeRange.Lines = <<>>
                       /\ new[Len(new)].OrigRange.Lines = <<>>
                       /\ new[Len(new)].NewRange.Lines = <<>>
                 /\ \A h \in 1..Len(old) : new[h] # old[h] =>
                       /\ AtLine /\ InsideHunk(idx + 1)
                       /\ f = RecentEntry
                       /\ h = Len(old)
                       /\ Len(new) = Len(old)
                       /\ Len(new[h].WholeRange.Lines) = Len(old[h].WholeRange.Lines) + 1
                       /\ new[h].WholeRange.Lines[Len(new[h].WholeRange.Lines)].Content
                              = Tail(Line)]_vars

\* a returned Diff of two files: the first has a hunk with one content line, the
\* second has no hunk, and a content line follows its `diff ` line
C21_Witness ==
    /\ pc = "done"
    /\ lines = <<lnDiff, lnHunk1, lnAdded, lnDiff2, lnAdded>>
    /\ Len(files) = 2
    /\ Len(files[1].Hunks) = 1
    /\ Len(files[1].Hunks[1].WholeRange.Lines) = 1
    /\ files[2].Hunks = <<>>

\* the lines of ls whose mode is in M, in order
OfMode(ls, M) == SelectSeq(ls, LAMBDA x : x.Mode \in M)

\* the line x without its Number
Unnumbered(x) == [Mode |-> x.Mode, Content |-> x.Content, Position |-> x.Position]

\* C23: in every hunk WholeRange.Lines has one entry for each content line read
\* for the hunk, in the order they were read, with the mode and the content of
\* the line; its Added and Unchanged entries are NewRange.Lines, its Removed and
\* Unchanged entries are, numbers apart, OrigRange.Lines, so that an Added line
\* is in NewRange and WholeRange only, a Removed line in OrigRange and
\* WholeRange only and an Unchanged line once in each of the three;
\* len(WholeRange.Lines) is len(OrigRange.Lines) plus len(NewRange.Lines) less
\* the number of Unchanged lines, and Length() is len(WholeRange.Lines) + 1.
C23_Whole ==
    \A f \in FileIds : \A h \in HunkIds(f) :
        LET hk == files[f].Hunks[h]
            whole == hk.WholeRange.Lines
            orig == hk.OrigRange.Lines
            new == hk.NewRange.Lines
            src == SourceAt(f, h)
            both == OfMode(whole, {DiffLineModeRemoved, DiffLineModeUnchanged})
        IN  /\ Len(whole) = Len(src)
            /\ \A i \in 1..Len(whole) :
                  /\ whole[i].Mode = ModeOfSign(lines[src[i]][1])
                  /\ whole[i].Content = Tail(lines[src[i]])
                  /\ i > 1 => src[i - 1] < src[i]
            /\ OfMode(whole, {DiffLineModeAdded, DiffLineModeUnchanged}) = new
            /\ Len(both) = Len(orig)
            /\ \A i \in 1..Len(orig) : Unnumbered(both[i]) = Unnumbered(orig[i])
            /\ OfMode(whole, {DiffLineModeRemoved}) = OfMode(orig, {DiffLineModeRemoved})
            /\ Len(whole) = Len(orig) + Len(new)
                                - Len(OfMode(whole, {DiffLineModeUnchanged}))
            /\ Length(hk) = Len(whole) + 1
            /\ Length(hk) = Len(src) + 1

\* a returned Diff with a hunk of an Added, a Removed and an Unchanged line
C23_Witness ==
    /\ pc = "done"
    /\ lines = <<lnDiff, lnHunk1, lnAdded, lnRemoved, lnUnchanged>>
    /\ Len(files[1].Hunks[1].WholeRange.Lines) = 3
    /\ Len(files[1].Hunks[1].OrigRange.Lines) = 2
    /\ Len(files[1].Hunks[1].NewRange.Lines) = 2
    /\ Length(files[1].Hunks[1]) = 4

-----------------------------------------------------------------------------
(* What a header line changes in an entry that has a hunk or a rename line. *)

\* --- a/h (inside a hunk: the removal of the line `-- a/h`)
lnOldOther == <<"-","-","-"," ","a","/","h">>

\* the largest number of lines that follow the first line of a document of
\* header lines and hunks
MaxFrameLines == 4

\* rename lines, `--- ` and `+++ ` lines with other names, a hunk
FrameLines == {lnDiff, lnRenameFrom, lnRenameTo, lnOldOther, lnNewFile4, lnHunk1,
               lnRemoved}

FrameDocs == After(lnDiff, FrameLines, MaxFrameLines)

InitFrame == \E doc \in FrameDocs \cup Samples : Begin(doc)

SpecFrame == InitFrame /\ [][Next]_vars

\* C22: once an entry has its first hunk, no line changes its Mode, OrigName,
\* NewName or SimilarityIndex; a line read while in a hunk adds lines to the
\* current hunk or is skipped.
C22_Original ==
    [][\A f \in FileIds : Len(files[f].Hunks) >= 1 =>
          /\ files'[f].Mode = files[f].Mode
          /\ files'[f].OrigName = files[f].OrigName
          /\ files'[f].NewName = files[f].NewName
          /\ files'[f].SimilarityIndex = files[f].SimilarityIndex]_vars

\* a line among those read since the most recent `diff ` line begins with p
SeenInEntry(p) ==
    \E k \in 1..idx :
        /\ HasPrefix(lines[k], p)
        /\ \A j \in k..idx : ~HasPrefix(lines[j], diffPrefix)

\* C24: in an entry where a `rename from` line was read, a later `--- <name>`
\* line leaves OrigName as it is, and where a `rename to` line was read, a later
\* `+++ <name>` line leaves NewName as it is.
C24_Original ==
    [][/\ (AtCase("oldFile") /\ file # 0 /\ SeenInEntry(renameFromPrefix))
              => files'[file].OrigName = files[file].OrigName
       /\ (AtCase("newFile") /\ file # 0 /\ SeenInEntry(renameToPrefix))
              => files'[file].NewName = files[file].NewName]_vars

-----------------------------------------------------------------------------
(* Lines outside a hunk that are no marker.                                 *)

\* the largest number of lines of a document with lines that are no marker
MaxIgnoredLines == 4

\* lines that are no marker (`index`, `new file mode`, blank, lines that look
\* like content), a `diff ` line and a hunk header
IgnoredLines == {lnDiff, lnHunk1, lnIndex, lnNewFileMode, lnBlank, lnAdded,
                 lnRemovedDashes}

\* documents with and without a `diff ` line before the other lines
IgnoredDocs == Docs(IgnoredLines, MaxIgnoredLines)

InitIgnored == \E doc \in IgnoredDocs \cup Samples : Begin(doc)

SpecIgnored == InitIgnored /\ [][Next]_vars

\* the line l begins with one of the markers that Parse knows
MarkerFirst(l) ==
    \E p \in {diffPrefix, oldFilePrefix, newFilePrefix, similarityPrefix,
              renameFromPrefix, renameToPrefix, binaryPrefix, hunkPrefix} :
        HasPrefix(l, p)

\* C25: a line read outside a hunk that begins with none of the markers raises
\* no error and leaves the files (their number, mode, names, hunks), the current
\* file and hunk and the counters of the old and new line numbers as they are;
\* Parse goes on with the next line.
C25_Ignored ==
    [][(AtLine /\ ~InsideHunk(idx + 1) /\ ~MarkerFirst(Line))
          => /\ pc' = "loop"
             /\ err' = ""
             /\ idx' = idx + 1
             /\ files' = files
             /\ file' = file
             /\ hunk' = hunk
             /\ inHunk' = inHunk
             /\ addedCount' = addedCount
             /\ removedCount' = removedCount]_vars

\* a returned Diff of one file with no hunk, for a document with a line that is
\* no marker before the `diff ` line, one after it and one that looks like a
\* content line
C25_Witness ==
    /\ pc = "done"
    /\ lines = <<lnIndex, lnDiff, lnNewFileMode, lnAdded>>
    /\ Len(files) = 1
    /\ files[1].Hunks = <<>>
    /\ files[1].Mode = FileModeModified

-----------------------------------------------------------------------------
(* The similarity index of a file.                                          *)

\* similarity index 250%
lnSimilarityOver == <<"s","i","m","i","l","a","r","i","t","y"," ","i","n","d","e","x"," ","2","5","0","%">>

\* similarity index high%
lnSimilarityWord == <<"s","i","m","i","l","a","r","i","t","y"," ","i","n","d","e","x"," ","h","i","g","h","%">>

\* similarity index -5%
lnSimilarityBelow == <<"s","i","m","i","l","a","r","i","t","y"," ","i","n","d","e","x"," ","-","5","%">>

\* the largest number of lines that follow the first line of a document of
\* similarity lines
MaxSimilarLines == 3

\* similarity lines with a percentage, with a number that is none, and with
\* no number; the rename lines and the lines that set another mode
SimilarLines == {lnDiff, lnSimilarity, lnSimilarityOver, lnSimilarityWord,
                 lnSimilarityBelow, lnRenameFrom, lnRenameTo, lnBinary, newDevNull}

SimilarDocs == After(lnDiff, SimilarLines, MaxSimilarLines)

InitSimilar == \E doc \in SimilarDocs \cup Samples : Begin(doc)

SpecSimilar == InitSimilar /\ [][Next]_vars

\* C28: in a returned Diff the SimilarityIndex of every file is in 0..100, and
\* it is not 0 only when the Mode of the file is Renamed, whatever the
\* `similarity index` lines that Parse has read.
C28_Original ==
    pc = "done" =>
        \A f \in FileIds :
            /\ files[f].SimilarityIndex \in 0..100
            /\ files[f].SimilarityIndex # 0 => files[f].Mode = FileModeRenamed

-----------------------------------------------------------------------------
(* The Parse of src/unnamed/part_000 (lines 118-236), the version that     *)
(* keeps Additions and Deletions in a DiffFile.  It has its own, shorter   *)
(* switch; its lineMode and isSourceLine do what those above do, and the   *)
(* values of its modes are the same.  It uses the variables above but      *)
(* diffPosCount and firstHunkInFile, which it does not have, and counts the *)
(* content lines of a hunk in hunkLineCount.                                *)

\* &DiffFile{} and &diffHunk{} of part_000
P0EmptyFile == [Mode |-> 0, OrigName |-> <<>>, NewName |-> <<>>,
                Additions |-> 0, Deletions |-> 0, Hunks |-> <<>>]
P0EmptyHunk == [OrigRange |-> EmptyRange, NewRange |-> EmptyRange]

\* oldFilePrefix := "--- a/" and newFilePrefix := "+++ b/"
P0oldFilePrefix == <<"-","-","-"," ","a","/">>
P0newFilePrefix == <<"+","+","+"," ","b","/">>

\* the case of the switch of part_000 that line l takes
P0Case(l, ih) ==
    IF HasPrefix(l, diffPrefix) THEN "diff"
    ELSE IF l = newDevNull THEN "newDevNull"
    ELSE IF l = oldDevNull THEN "oldDevNull"
    ELSE IF HasPrefix(l, P0oldFilePrefix) THEN "oldFile"
    ELSE IF HasPrefix(l, P0newFilePrefix) THEN "newFile"
    ELSE IF HasPrefix(l, hunkPrefix) THEN "hunk"
    ELSE IF ih /\ isSourceLine(l) THEN "source"
    ELSE "none"

P0AtCase(c) == pc = "loop" /\ idx < Len(lines) /\ P0Case(Line, inHunk) = c

\* what no step of the Parse of part_000 touches
P0outside == <<changed, running, peer, lines, diffPosCount, firstHunkInFile, origin>>

\* a nil pointer is dereferenced or a nil slice indexed: the program panics
P0Panic ==
    /\ pc' = "panic"
    /\ UNCHANGED <<P0outside, idx, err, files, file, hunk, addedCount, removedCount,
                   inHunk, hunkLineCount>>

\* the case changes *file to f and nothing else; the loop goes on
P0SetFile(f) ==
    /\ files' = [files EXCEPT ![file] = f]
    /\ idx' = idx + 1
    /\ UNCHANGED <<P0outside, pc, err, file, hunk, addedCount, removedCount, inHunk,
                   hunkLineCount>>

\* case strings.HasPrefix(l, "diff ")
P0CaseDiff ==
    /\ P0AtCase("diff")
    /\ files' = Append(files, [P0EmptyFile EXCEPT !.Mode = FileModeModified])
    /\ file' = Len(files) + 1
    /\ inHunk' = FALSE
    /\ idx' = idx + 1
    /\ UNCHANGED <<P0outside, pc, err, hunk, addedCount, removedCount, hunkLineCount>>

\* case l == "+++ /dev/null"
P0CaseNewDevNull ==
    /\ P0AtCase("newDevNull")
    /\ IF file = 0 THEN P0Panic
       ELSE P0SetFile([files[file] EXCEPT !.Mode = FileModeDeleted])

\* case l == "--- /dev/null"
P0CaseOldDevNull ==
    /\ P0AtCase("oldDevNull")
    /\ IF file = 0 THEN P0Panic
       ELSE P0SetFile([files[file] EXCEPT !.Mode = FileModeNew])

\* case strings.HasPrefix(l, oldFilePrefix)
P0CaseOldFile ==
    /\ P0AtCase("oldFile")
    /\ IF file = 0 THEN P0Panic
       ELSE P0SetFile([files[file] EXCEPT !.OrigName = TrimPrefix(Line, P0oldFilePrefix)])

\* case strings.HasPrefix(l, newFilePrefix)
P0CaseNewFile ==
    /\ P0AtCase("newFile")
    /\ IF file = 0 THEN P0Panic
       ELSE P0SetFile([files[file] EXCEPT !.NewName = TrimPrefix(Line, P0newFilePrefix)])

\* the regular expression @@ \-(\d+),(\d+) \+(\d+),?(\d+)? @@ matched at
\* position i of s: [ok, m] with m the groups 1 to 4
P0hunkHeaderAt(s, i) ==
    LET j1 == i + 4
        n1 == DigitRun(s, j1)
        j2 == j1 + n1
        j3 == j2 + 1
        n2 == DigitRun(s, j3)
        j4 == j3 + n2
        j5 == j4 + 2
        n3 == DigitRun(s, j5)
        j6 == j5 + n3
        j7 == IF At(s, j6) = "," THEN j6 + 1 ELSE j6
        n4 == DigitRun(s, j7)
        j8 == j7 + n4
        ok == /\ Slice(s, i, i + 3) = <<"@","@"," ","-">>
              /\ n1 >= 1
              /\ At(s, j2) = ","
              /\ n2 >= 1
              /\ Slice(s, j4, j4 + 1) = <<" ","+">>
              /\ n3 >= 1
              /\ Slice(s, j8, j8 + 2) = <<" ","@","@">>
    IN  IF ok
        THEN [ok |-> TRUE,
              m |-> <<Slice(s, j1, j2 - 1), Slice(s, j3, j4 - 1),
                      Slice(s, j5, j6 - 1), Slice(s, j7, j8 - 1)>>]
        ELSE [ok |-> FALSE, m |-> <<>>]

\* re.FindStringSubmatch(s): the leftmost match, from position i on
RECURSIVE P0hunkHeaderFind(_, _)
P0hunkHeaderFind(s, i) ==
    IF i > Len(s) THEN [ok |-> FALSE, m |-> <<>>]
    ELSE IF P0hunkHeaderAt(s, i).ok THEN P0hunkHeaderAt(s, i)
    ELSE P0hunkHeaderFind(s, i + 1)

\* the four numbers of a matched hunk header; ok is FALSE when an Atoi fails
P0hunkRanges(m) ==
    LET a == Atoi(m[1])
        b == Atoi(m[2])
        c == Atoi(m[3])
        d == IF Len(m[4]) > 0 THEN Atoi(m[4]) ELSE c
    IN  [ok |-> a.ok /\ b.ok /\ c.ok /\ d.ok,
         a |-> a.val, b |-> b.val, c |-> c.val, d |-> d.val]

\* case strings.HasPrefix(l, "@@ "); m[1] of a header that does not match panics
P0CaseHunkHeader ==
    /\ P0AtCase("hunk")
    /\ IF file = 0 THEN P0Panic
       ELSE LET found == P0hunkHeaderFind(Line, 1)
                r == P0hunkRanges(found.m)
                k == Len(files[file].Hunks) + 1
            IN  /\ inHunk' = TRUE
                /\ hunk' = [f |-> file, h |-> k]
                /\ hunkLineCount' = 0
                /\ UNCHANGED <<P0outside, file>>
                /\ IF ~found.ok
                   THEN /\ pc' = "panic"
                        /\ files' = [files EXCEPT ![file].Hunks = Append(@, P0EmptyHunk)]
                        /\ UNCHANGED <<idx, err, addedCount, removedCount>>
                   ELSE IF ~r.ok
                   THEN /\ pc' = "error"
                        /\ err' = "strconv.Atoi"
                        /\ files' = [files EXCEPT ![file].Hunks = Append(@, P0EmptyHunk)]
                        /\ UNCHANGED <<idx, addedCount, removedCount>>
                   ELSE /\ files' = [files EXCEPT ![file].Hunks = Append(@,
                                [OrigRange |-> [Start |-> r.a, Length |-> r.b, Lines |-> <<>>],
                                 NewRange |-> [Start |-> r.c, Length |-> r.d, Lines |-> <<>>]])]
                        /\ addedCount' = r.c
                        /\ removedCount' = r.a
                        /\ idx' = idx + 1
                        /\ UNCHANGED <<pc, err>>

\* the hunk h with the content line l of mode m added to its ranges
P0addLine(h, l, m, added, removed, pos) ==
    LET line == [Mode |-> m, Number |-> 0, Content |-> Tail(l), Position |-> pos]
        newLine == [line EXCEPT !.Number = added]
        origLine == [line EXCEPT !.Number = removed]
    IN  IF m = DiffLineModeAdded
        THEN [h EXCEPT !.NewRange.Lines = Append(@, newLine)]
        ELSE IF m = DiffLineModeRemoved
        THEN [h EXCEPT !.OrigRange.Lines = Append(@, origLine)]
        ELSE [h EXCEPT !.NewRange.Lines = Append(@, newLine),
                       !.OrigRange.Lines = Append(@, origLine)]

\* Additions that counts every line of the new side
Additions2(m, n) == IF m = DiffLineModeRemoved THEN n ELSE n + 1

\* file.Additions and file.Deletions after a content line of mode m
Additions(m, n) == IF m = DiffLineModeAdded THEN n + 1 ELSE n
Deletions(m, n) == IF m = DiffLineModeRemoved THEN n + 1 ELSE n

\* case inHunk && isSourceLine(l)
P0CaseSourceLine ==
    /\ P0AtCase("source")
    /\ hunkLineCount' = hunkLineCount + 1
    /\ LET m == lineMode(Line)
       IN  IF ~m.ok
           THEN /\ pc' = "error"
                /\ err' = "could not parse line mode for line"
                /\ UNCHANGED <<P0outside, idx, files, file, hunk, addedCount, removedCount,
                               inHunk>>
           ELSE /\ files' = [files EXCEPT
                                 ![hunk.f].Hunks[hunk.h] =
                                     P0addLine(@, Line, m.mode, addedCount, removedCount,
                                               hunkLineCount + 1),
                                 ![file].Additions = Additions(m.mode, @),
                                 ![file].Deletions = Deletions(m.mode, @)]
                /\ addedCount' = nextAdded(m.mode, addedCount)
                /\ removedCount' = nextRemoved(m.mode, removedCount)
                /\ idx' = idx + 1
                /\ UNCHANGED <<P0outside, pc, err, file, hunk, inHunk>>

\* no case of the switch holds
P0NoCase ==
    /\ P0AtCase("none")
    /\ idx' = idx + 1
    /\ UNCHANGED <<P0outside, pc, err, files, file, hunk, addedCount, removedCount,
                   inHunk, hunkLineCount>>

\* return &diff, nil
P0Return ==
    /\ pc = "loop"
    /\ idx = Len(lines)
    /\ pc' = "done"
    /\ UNCHANGED <<P0outside, idx, err, files, file, hunk, addedCount, removedCount,
                   inHunk, hunkLineCount>>

P0Next ==
    \/ P0CaseDiff
    \/ P0CaseNewDevNull
    \/ P0CaseOldDevNull
    \/ P0CaseOldFile
    \/ P0CaseNewFile
    \/ P0CaseHunkHeader
    \/ P0CaseSourceLine
    \/ P0NoCase
    \/ P0Return

\* the largest number of lines that follow the first line of a document of
\* tallies
MaxTallyLines == 5

\* hunk headers that the regular expression of part_000 finds and does not
\* find, content lines of the three modes
TallyLines == {lnDiff, lnHunk1, lnHunk2, lnAdded, lnRemoved, lnUnchanged}

TallyDocs == After(lnDiff, TallyLines, MaxTallyLines)

InitTally == \E doc \in TallyDocs \cup Samples : Begin(doc)

SpecTally == InitTally /\ [][P0Next]_vars

\* the number of Added lines in NewRange.Lines of the hunks hs
RECURSIVE CountAdded(_)
CountAdded(hs) ==
    IF hs = <<>> THEN 0
    ELSE Len(SelectSeq(Head(hs).NewRange.Lines, LAMBDA x : x.Mode = DiffLineModeAdded))
             + CountAdded(Tail(hs))

\* the number of Removed lines in OrigRange.Lines of the hunks hs
RECURSIVE CountRemoved(_)
CountRemoved(hs) ==
    IF hs = <<>> THEN 0
    ELSE Len(SelectSeq(Head(hs).OrigRange.Lines, LAMBDA x : x.Mode = DiffLineModeRemoved))
             + CountRemoved(Tail(hs))

\* C29: the Additions of every file is the number of Added lines in all its
\* hunks and its Deletions the number of Removed lines in all its hunks, while
\* Parse runs and when it has returned; an Unchanged line, which is in both
\* sides of its hunk, counts for neither.
C29_Tally ==
    \A f \in FileIds :
        /\ files[f].Additions = CountAdded(files[f].Hunks)
        /\ files[f].Deletions = CountRemoved(files[f].Hunks)

\* a returned Diff with a file of two hunks, with an Added and an Unchanged line
\* in the first and a Removed line in the second
C29_Witness ==
    /\ pc = "done"
    /\ lines = <<lnDiff, lnHunk1, lnAdded, lnUnchanged, lnHunk1, lnRemoved>>
    /\ Len(files[1].Hunks) = 2
    /\ files[1].Additions = 1
    /\ files[1].Deletions = 1

-----------------------------------------------------------------------------
(* Parse on every document above.                                          *)

Init ==
    \E doc \in HunkDocs \cup HeaderDocs \cup PlainDocs \cup FileDocs \cup BinaryDocs
                \cup ChangedDocs \cup ErrDocs \cup NameDocs \cup EntryDocs \cup OrderDocs
                \cup FrameDocs \cup IgnoredDocs \cup SimilarDocs \cup Samples :
        Begin(doc)

Spec == Init /\ [][Next]_vars

=============================================================================
